---- MODULE Spec2Model ----
(***************************************************************************)
(* Model of the publications scripts pubparse.py and                       *)
(* publications_parser.py: the record sorter, the misc classifier, the     *)
(* name formatter, the citation key and the special character passes.      *)
(*                                                                         *)
(* A Python str is a TLA+ string; Len, \o and SubSeq act on it as on any   *)
(* sequence.  A Python dict is a function whose DOMAIN is its key set.     *)
(* A Python list is a sequence; list positions reported by the program     *)
(* (list.index) are 0-based as in the source.                              *)
(***************************************************************************)
EXTENDS Integers, Sequences, FiniteSets, TLC

VARIABLES
    pc,                  \* the call in progress, or the one that returned
    script,              \* "pubparse" or "publications_parser"
    publications,        \* argument of sort_publications and of
                         \* filter_undergraduate_theses
    sorted_publications, \* value returned by sort_publications
    miscs,               \* value returned by filter_undergraduate_theses
    names,               \* argument of format_names and bibtex_citation
    names_year,          \* argument year of bibtex_citation
    formatted_names,     \* value returned by format_names
    citation_name,       \* value returned by bibtex_citation
    entry,               \* argument of replace_special
    cleansed_entry,      \* value returned by replace_special
    bibtex_entries,      \* the entries of one BibTeX output, in output order
    stanza_heads,        \* value returned by format_author_title, per entry
    kind,                \* the kind of the record that is rendered
    record,              \* the record: argument of a format function,
                         \* of html_title and of remove_blanks
    entry_noblanks,      \* value returned by remove_blanks
    rendered,            \* outcome of a format function or of html_title
    databases,           \* per database of the driver, the step that fails
    attempted,           \* the databases passed to process_database so far
    output_files,        \* per output file, whether the run has written it
    htmlfile,            \* the lines of the HTML file that output_html reads
    lists,               \* the list items of the four sections, in order
    htmlcontent,         \* the pieces of the text that output_html writes
    bibdb,               \* the database that process_database reads
    db,                  \* outcome of process_database
    listed               \* per section of output_html: the records sorted,
                         \* their renderings, sorted_index, the list items

sortVars == <<publications, sorted_publications>>
classifyVars == <<miscs>>
nameVars == <<names, names_year, formatted_names, citation_name>>
replaceVars == <<entry, cleansed_entry>>
bibtexVars == <<bibtex_entries, stanza_heads>>
renderVars == <<kind, record, entry_noblanks, rendered>>
driverVars == <<databases, attempted, output_files>>
spliceVars == <<htmlfile, lists, htmlcontent>>
databaseVars == <<bibdb, db, listed>>

vars == <<pc, script, sortVars, classifyVars, nameVars, replaceVars,
          bibtexVars, renderVars, driverVars, spliceVars, databaseVars>>

Scripts == {"pubparse", "publications_parser"}

\* Values of the variables of a component that is not exercised.
SortIdle == publications = <<>> /\ sorted_publications = <<>>
ClassifyIdle == miscs = [preprints |-> <<>>, undergraduatetheses |-> <<>>]
NameIdle ==
    names = "" /\ names_year = "" /\ formatted_names = "" /\ citation_name = ""
ReplaceIdle == entry = "" /\ cleansed_entry = ""
BibtexIdle == bibtex_entries = <<>> /\ stanza_heads = <<>>
EmptyEntry == [attribute \in {} |-> ""]
NoOutcome == [raised |-> "", arg |-> "", value |-> ""]
RenderIdle ==
    /\ kind = "" /\ record = EmptyEntry /\ entry_noblanks = EmptyEntry
    /\ rendered = NoOutcome
DriverIdle == databases = <<>> /\ attempted = <<>> /\ output_files = <<>>
SpliceIdle == htmlfile = <<>> /\ lists = <<>> /\ htmlcontent = <<>>
DatabaseIdle == bibdb = <<>> /\ db = NoOutcome /\ listed = <<>>

(***************************************************************************)
(* Bounds of the model.                                                    *)
(***************************************************************************)
MaxPubs == 3
MaxEntryLen == 4
MaxNames == 3

(***************************************************************************)
(* Python str primitives.                                                  *)
(***************************************************************************)

\* The characters that occur in the model, in increasing code point order.
Alphabet == " \"&'-.0123456789:;<>ABCDEFGHIJKLMNOPQRSTUVWXYZ\\^abcdefghijklmnopqrstuvwxyz{}"

CharAt(s, i) == SubSeq(s, i, i)

\* ord(c): the rank of the one-character string c (order-isomorphic to its
\* code point on the characters of Alphabet).
ord(c) == CHOOSE i \in 1..Len(Alphabet) : CharAt(Alphabet, i) = c

\* s1 < s2 for Python 2 str: lexicographic on code points, a proper prefix
\* is smaller.
RECURSIVE str_lt(_, _)
str_lt(s1, s2) ==
    IF s2 = "" THEN FALSE
    ELSE IF s1 = "" THEN TRUE
    ELSE IF Head(s1) = Head(s2) THEN str_lt(Tail(s1), Tail(s2))
    ELSE ord(Head(s1)) < ord(Head(s2))

str_le(s1, s2) == s1 = s2 \/ str_lt(s1, s2)

\* s[i:i+len(pat)] == pat
MatchAt(s, i, pat) ==
    /\ i + Len(pat) - 1 <= Len(s)
    /\ SubSeq(s, i, i + Len(pat) - 1) = pat

\* pat in s
str_contains(s, pat) == \E i \in 1..(Len(s) + 1) : MatchAt(s, i, pat)

\* s.replace(old, new) for a non-empty old: left to right, non-overlapping.
RECURSIVE str_replace(_, _, _)
str_replace(s, old, new) ==
    IF ~\E i \in 1..Len(s) : MatchAt(s, i, old) THEN s
    ELSE LET first == CHOOSE i \in 1..Len(s) :
                          /\ MatchAt(s, i, old)
                          /\ \A j \in 1..(i - 1) : ~MatchAt(s, j, old)
         IN  SubSeq(s, 1, first - 1) \o new
             \o str_replace(SubSeq(s, first + Len(old), Len(s)), old, new)

\* s.split(sep) for a non-empty sep: the pieces between the non-overlapping
\* occurrences of sep, empty pieces included.
RECURSIVE str_split_from(_, _, _)
str_split_from(s, sep, piece) ==
    IF s = "" THEN <<piece>>
    ELSE IF MatchAt(s, 1, sep)
         THEN <<piece>> \o str_split_from(SubSeq(s, Len(sep) + 1, Len(s)), sep, "")
         ELSE str_split_from(Tail(s), sep, piece \o Head(s))

str_split(s, sep) == str_split_from(s, sep, "")

IsSpace(c) == c \in {" ", "\t", "\n"}

\* s.split(): the maximal runs of non-whitespace characters.
RECURSIVE str_split_ws_from(_, _)
str_split_ws_from(s, piece) ==
    IF s = "" THEN (IF piece = "" THEN <<>> ELSE <<piece>>)
    ELSE IF IsSpace(Head(s))
         THEN (IF piece = "" THEN <<>> ELSE <<piece>>)
              \o str_split_ws_from(Tail(s), "")
         ELSE str_split_ws_from(Tail(s), piece \o Head(s))

str_split_ws(s) == str_split_ws_from(s, "")

RECURSIVE str_lstrip(_)
str_lstrip(s) ==
    IF s # "" /\ IsSpace(Head(s)) THEN str_lstrip(Tail(s)) ELSE s

RECURSIVE str_rstrip(_)
str_rstrip(s) ==
    IF s # "" /\ IsSpace(CharAt(s, Len(s)))
    THEN str_rstrip(SubSeq(s, 1, Len(s) - 1))
    ELSE s

\* s.strip()
str_strip(s) == str_rstrip(str_lstrip(s))

\* "".join(parts)
RECURSIVE str_join(_)
str_join(parts) ==
    IF parts = <<>> THEN "" ELSE Head(parts) \o str_join(Tail(parts))

(***************************************************************************)
(* Python list primitives.                                                 *)
(***************************************************************************)

RemoveAt(s, i) == SubSeq(s, 1, i - 1) \o SubSeq(s, i + 1, Len(s))

\* (a, i) < (b, j) for tuples of a str and an int.
pair_lt(p, q) == str_lt(p[1], q[1]) \/ (p[1] = q[1] /\ p[2] < q[2])

\* sorted(pairs) for a list of (str, int) tuples.
RECURSIVE sorted(_)
sorted(pairs) ==
    IF pairs = <<>> THEN <<>>
    ELSE LET m == CHOOSE i \in 1..Len(pairs) :
                     /\ \A j \in 1..Len(pairs) : ~pair_lt(pairs[j], pairs[i])
                     /\ \A j \in 1..(i - 1) : pair_lt(pairs[i], pairs[j])
         IN  <<pairs[m]>> \o sorted(RemoveAt(pairs, m))

\* sorted(keys) for a set of str.
RECURSIVE sorted_keys(_)
sorted_keys(keys) ==
    IF keys = {} THEN <<>>
    ELSE LET m == CHOOSE k \in keys : \A k2 \in keys : str_le(k, k2)
         IN  <<m>> \o sorted_keys(keys \ {m})

\* lst.index(item), 0-based: the first position whose element equals item.
list_index(lst, item) ==
    (CHOOSE i \in 1..Len(lst) :
        /\ lst[i] = item
        /\ \A j \in 1..(i - 1) : lst[j] # item) - 1

(***************************************************************************)
(* The publication sorter.                                                 *)
(***************************************************************************)

\* A surname taken as the first token of the first author instead of the last.
surname_first_token(name) ==
    LET author_names == str_split(name, " and ")
        first_author == str_split_ws(author_names[1])
    IN  first_author[1]

\* surname(name): the last whitespace-delimited token of the first author.
surname(name) ==
    LET author_names == str_split(name, " and ")
        first_author == str_split_ws(author_names[1])
    IN  first_author[Len(first_author)]

\* sort_by_year's loop over sorted_years: items_dict maps a year to the list
\* of the publications of that year.
RECURSIVE sort_by_year_loop(_, _, _)
sort_by_year_loop(pubs, sorted_years, items_dict) ==
    IF sorted_years = <<>> THEN items_dict
    ELSE LET year == Head(sorted_years)[1]
             item == Head(sorted_years)[2]
             next_dict ==
                 IF year \in DOMAIN items_dict
                 THEN [items_dict EXCEPT
                          ![year] = Append(@, pubs[item + 1])]
                 ELSE (year :> <<pubs[item + 1]>>) @@ items_dict
         IN  sort_by_year_loop(pubs, Tail(sorted_years), next_dict)

sort_by_year(pubs) ==
    LET item_years == [i \in 1..Len(pubs) |-> <<pubs[i].year, i - 1>>]
        sorted_years == sorted(item_years)
    IN  sort_by_year_loop(pubs, sorted_years, <<>>)

\* A sort_by_name that leaves the publications of a year in input order.
sort_by_name_unsorted(pubs) == pubs

sort_by_name(pubs) ==
    LET author_names == [i \in 1..Len(pubs) |-> <<pubs[i].author, i - 1>>]
        last_names == [i \in 1..Len(author_names) |->
                          <<surname(author_names[i][1]), i - 1>>]
        sorted_names == sorted(last_names)
    IN  [i \in 1..Len(sorted_names) |-> pubs[sorted_names[i][2] + 1]]

RECURSIVE sort_publications_loop(_, _, _)
sort_publications_loop(pubs, publications_sorted_years, sorted_years) ==
    IF sorted_years = <<>> THEN <<>>
    ELSE LET year == Head(sorted_years)
             pub_items == sort_by_name(publications_sorted_years[year])
         IN  [i \in 1..Len(pub_items) |-> list_index(pubs, pub_items[i])]
             \o sort_publications_loop(pubs, publications_sorted_years,
                                       Tail(sorted_years))

sort_publications(pubs) ==
    LET publications_sorted_years == sort_by_year(pubs)
        sorted_years == sorted_keys(DOMAIN publications_sorted_years)
    IN  sort_publications_loop(pubs, publications_sorted_years, sorted_years)

(***************************************************************************)
(* Inputs of the sorter: records as process_database hands them to         *)
(* output_html.  Two database entries with the same attribute values give  *)
(* equal records.                                                          *)
(***************************************************************************)
SortYears == {"1999", "2005"}
SortAuthors == {"Zed A", "Adam B", "Alex C", "Eve B and Al a"}
SortTitles == {"T1", "T2"}
SortRecords == [author : SortAuthors, year : SortYears, title : SortTitles]

\* extract_publication copies every field of the entry: an entry that gives
\* its date in a date field has a date attribute and no year attribute.
YearlessRecords ==
    {[author |-> "Alex C", date |-> "2005-03-01", title |-> "T1"]}

SeqsUpTo(S, n) == UNION {[1..k -> S] : k \in 0..n}

InitSort ==
    /\ pc = "sort_publications"
    /\ script \in Scripts
    /\ publications \in SeqsUpTo(SortRecords \cup YearlessRecords, MaxPubs)
    /\ sorted_publications = <<>>
    /\ ClassifyIdle /\ NameIdle /\ ReplaceIdle /\ BibtexIdle
    /\ RenderIdle /\ DriverIdle /\ SpliceIdle /\ DatabaseIdle

\* publications[i]["year"] in sort_by_year raises KeyError('year') for a
\* record without a year attribute.
SortPublications ==
    /\ pc = "sort_publications"
    /\ IF \E i \in DOMAIN publications : "year" \notin DOMAIN publications[i]
       THEN pc' = "sort_publications.raise" /\ UNCHANGED sorted_publications
       ELSE /\ sorted_publications' = sort_publications(publications)
            /\ pc' = "sorted"
    /\ UNCHANGED <<script, publications, classifyVars, nameVars, replaceVars,
                   bibtexVars,
                   renderVars, driverVars, spliceVars,
                   databaseVars>>

NextSort == SortPublications

SpecSort == InitSort /\ [][NextSort]_vars

(***************************************************************************)
(* The special character passes.                                           *)
(***************************************************************************)

\* The grave accent cannot be written in a string of this language; this
\* character, which occurs in no input of the model, stands for it.
GRAVE == "~"

\* replace_table of pubparse.py, in order.
pubparse_replace_table ==
    << <<"\\\"a", "&auml;">>,
       <<"\\'a", "&aacute;">>,
       <<"\\c{c}", "&ccedil;">>,
       <<"\\\"e", "&euml;">>,
       <<"\\'e", "&eacute;">>,
       <<"\\'i", "&iacute;">>,
       <<"\\'o", "&oacute;">>,
       <<"\\" \o GRAVE \o "a", "&agrave;">>,
       <<"\\" \o GRAVE \o "e", "&egrave;">>,
       <<"\\" \o GRAVE \o "o", "&ograve;">>,
       <<"\\\"o", "&ouml;">>,
       <<"\\^o", "&ocirc;">>,
       <<"\\o", "&oslash;">>,
       <<"\\&", "&amp;">>,
       <<"\\textsc{", "">>,
       <<"\\texttt", "">>,
       <<"{", "">>,
       <<"}", "">> >>

\* replace_table of publications_parser.py, in order.
parser_replace_table ==
    << <<"{\\\"a}", "&auml;">>,
       <<"{\\'a}", "&aacute;">>,
       <<"{\\\"e}", "&euml;">>,
       <<"{\\'e}", "&eacute;">>,
       <<"{\\'i}", "&iacute;">>,
       <<"{\\'o}", "&oacute;">>,
       <<"\\&", "&amp;">>,
       <<"\\textsc{", "">>,
       <<"{", "">>,
       <<"}", "">> >>

\* for candidate, target in replace_table: s = s.replace(candidate, target)
RECURSIVE replace_all(_, _)
replace_all(s, replace_table) ==
    IF replace_table = <<>> THEN s
    ELSE replace_all(str_replace(s, Head(replace_table)[1],
                                 Head(replace_table)[2]),
                     Tail(replace_table))

pubparse_replace_special(e) == replace_all(e, pubparse_replace_table)

parser_replace_special(e) == replace_all(e, parser_replace_table)

replace_special(scr, e) ==
    IF scr = "pubparse" THEN pubparse_replace_special(e)
    ELSE parser_replace_special(e)

(***************************************************************************)
(* Inputs of replace_special: text of a rendered publication that holds    *)
(* LaTeX markup.                                                           *)
(***************************************************************************)
ReplaceChars == {"\\", "{", "}", "'", "&", "o"}

RECURSIVE StringsUpTo(_, _)
StringsUpTo(chars, n) ==
    IF n = 0 THEN {""}
    ELSE LET shorter == StringsUpTo(chars, n - 1)
         IN  shorter \cup {s \o c : s \in shorter, c \in chars}

InitReplace ==
    /\ pc = "replace_special"
    /\ script \in Scripts
    /\ entry \in StringsUpTo(ReplaceChars, MaxEntryLen)
    /\ cleansed_entry = ""
    /\ SortIdle /\ ClassifyIdle /\ NameIdle /\ BibtexIdle
    /\ RenderIdle /\ DriverIdle /\ SpliceIdle /\ DatabaseIdle

\* The first application: cleansed_entry = replace_special(entry).
ReplaceSpecial ==
    /\ pc = "replace_special"
    /\ cleansed_entry' = replace_special(script, entry)
    /\ pc' = "replaced"
    /\ UNCHANGED <<script, entry, sortVars, classifyVars, nameVars, bibtexVars,
                   renderVars, driverVars, spliceVars,
                   databaseVars>>

\* A further application to the value just returned; entry keeps the
\* argument of this application.
ReplaceSpecialAgain ==
    /\ pc = "replaced"
    /\ entry' = cleansed_entry
    /\ cleansed_entry' = replace_special(script, cleansed_entry)
    /\ pc' = "replaced_again"
    /\ UNCHANGED <<script, sortVars, classifyVars, nameVars, bibtexVars,
                   renderVars, driverVars, spliceVars,
                   databaseVars>>

NextReplace == ReplaceSpecial \/ ReplaceSpecialAgain

SpecReplace == InitReplace /\ [][NextReplace]_vars

(***************************************************************************)
(* The entry classifier.                                                   *)
(***************************************************************************)

\* The value of a call: the name of the exception raised ("" for none) and
\* the dictionary returned.
Returned(preprints, undergraduate_theses) ==
    [raised |-> "",
     preprints |-> preprints,
     undergraduatetheses |-> undergraduate_theses]

Raised(exception) ==
    [raised |-> exception, preprints |-> <<>>, undergraduatetheses |-> <<>>]

\* A loop that reads item["note"] without the test '"note" in item'.
RECURSIVE pubparse_filter_loop_unguarded(_, _, _)
pubparse_filter_loop_unguarded(pubs, preprints, undergraduate_theses) ==
    IF pubs = <<>> THEN Returned(preprints, undergraduate_theses)
    ELSE LET item == Head(pubs)
         IN  IF "note" \notin DOMAIN item THEN Raised("KeyError")
             ELSE IF str_contains(item["note"], "thesis")
             THEN pubparse_filter_loop_unguarded(
                      Tail(pubs), preprints, Append(undergraduate_theses, item))
             ELSE pubparse_filter_loop_unguarded(
                      Tail(pubs), Append(preprints, item), undergraduate_theses)

\* A loop that puts each preprint in front of the earlier ones.
RECURSIVE pubparse_filter_loop_prepend(_, _, _)
pubparse_filter_loop_prepend(pubs, preprints, undergraduate_theses) ==
    IF pubs = <<>> THEN Returned(preprints, undergraduate_theses)
    ELSE LET item == Head(pubs)
         IN  IF ("note" \in DOMAIN item) /\ str_contains(item["note"], "thesis")
             THEN pubparse_filter_loop_prepend(
                      Tail(pubs), preprints, Append(undergraduate_theses, item))
             ELSE pubparse_filter_loop_prepend(
                      Tail(pubs), <<item>> \o preprints, undergraduate_theses)

\* The loop of filter_undergraduate_theses in pubparse.py.
RECURSIVE pubparse_filter_loop(_, _, _)
pubparse_filter_loop(pubs, preprints, undergraduate_theses) ==
    IF pubs = <<>> THEN Returned(preprints, undergraduate_theses)
    ELSE LET item == Head(pubs)
         IN  IF ("note" \in DOMAIN item) /\ str_contains(item["note"], "thesis")
             THEN pubparse_filter_loop(
                      Tail(pubs), preprints, Append(undergraduate_theses, item))
             ELSE pubparse_filter_loop(
                      Tail(pubs), Append(preprints, item), undergraduate_theses)

\* The loop of filter_undergraduate_theses in publications_parser.py:
\* item["note"] raises KeyError when the item has no note.
RECURSIVE parser_filter_loop(_, _, _)
parser_filter_loop(pubs, preprints, undergraduate_theses) ==
    IF pubs = <<>> THEN Returned(preprints, undergraduate_theses)
    ELSE LET item == Head(pubs)
         IN  IF "note" \notin DOMAIN item THEN Raised("KeyError")
             ELSE IF str_contains(str_strip(item["note"]), "thesis")
             THEN parser_filter_loop(
                      Tail(pubs), preprints, Append(undergraduate_theses, item))
             ELSE parser_filter_loop(
                      Tail(pubs), Append(preprints, item), undergraduate_theses)

filter_undergraduate_theses(scr, pubs) ==
    IF scr = "pubparse" THEN pubparse_filter_loop(pubs, <<>>, <<>>)
    ELSE parser_filter_loop(pubs, <<>>, <<>>)

(***************************************************************************)
(* Inputs of the classifier: publications["miscs"] as process_database     *)
(* builds it.  pubparse.py copies the fields that the BibTeX entry has, so *)
(* a record may lack note; publications_parser.py reads one line for each  *)
(* name of misc_attributes, so every record has all six attributes and an  *)
(* absent value is the stub BLANK.                                         *)
(***************************************************************************)
BLANK == "<BLANK>"

misc_attributes == <<"author", "title", "howpublished", "year", "note", "url">>

MiscNotes ==
    {"http://example.org/y.pdf",
     "http://example.org/x.pdf Bachelor thesis",
     "Thesis"}

PubparseMiscRecords ==
    [author : {"A B"}, title : {"T1", "T2"}, year : {"2009"}]
    \cup [author : {"A B"}, title : {"T1", "T2"}, year : {"2009"},
          note : MiscNotes]

ParserMiscRecords ==
    {r \in [{misc_attributes[i] : i \in 1..Len(misc_attributes)} ->
               MiscNotes \cup {BLANK, "A B", "T1", "2009"}] :
        /\ r["author"] = "A B"
        /\ r["title"] = "T1"
        /\ r["howpublished"] = BLANK
        /\ r["year"] = "2009"
        /\ r["note"] \in {BLANK, "http://example.org/x.pdf Bachelor thesis",
                          "Thesis"}
        /\ r["url"] \in {BLANK, "http://example.org/y.pdf"}}

MiscRecords(scr) ==
    IF scr = "pubparse" THEN PubparseMiscRecords ELSE ParserMiscRecords

InitClassify ==
    /\ pc = "filter_undergraduate_theses"
    /\ script \in Scripts
    /\ publications \in SeqsUpTo(MiscRecords(script), MaxPubs)
    /\ sorted_publications = <<>>
    /\ ClassifyIdle /\ NameIdle /\ ReplaceIdle /\ BibtexIdle
    /\ RenderIdle /\ DriverIdle /\ SpliceIdle /\ DatabaseIdle

FilterUndergraduateTheses ==
    /\ pc = "filter_undergraduate_theses"
    /\ LET value == filter_undergraduate_theses(script, publications)
       IN  IF value.raised # ""
           THEN pc' = value.raised /\ UNCHANGED miscs
           ELSE /\ pc' = "filtered"
                /\ miscs' = [preprints |-> value.preprints,
                             undergraduatetheses |-> value.undergraduatetheses]
    /\ UNCHANGED <<script, sortVars, nameVars, replaceVars, bibtexVars,
                   renderVars, driverVars, spliceVars,
                   databaseVars>>

NextClassify == FilterUndergraduateTheses

SpecClassify == InitClassify /\ [][NextClassify]_vars

(***************************************************************************)
(* The name formatter and the citation key.                                *)
(***************************************************************************)

\* lst.insert(-1, x): x goes in front of the last element.
list_insert_before_last(lst, x) ==
    SubSeq(lst, 1, Len(lst) - 1) \o <<x>> \o SubSeq(lst, Len(lst), Len(lst))

\* [name.strip() for name in names.split(" and ")]
stripped_names(nms) ==
    LET pieces == str_split(nms, " and ")
    IN  [i \in 1..Len(pieces) |-> str_strip(pieces[i])]

\* A format_names whose comma loop stops one name early.
format_names_short_loop(nms) ==
    LET formatted == stripped_names(nms)
    IN  IF Len(formatted) = 1 THEN formatted[1]
        ELSE IF Len(formatted) = 2
        THEN str_join(<<formatted[1], " and ", formatted[2]>>)
        ELSE LET inserted == list_insert_before_last(formatted, "and ")
                 with_commas ==
                     [i \in 1..Len(inserted) |->
                         IF i <= Len(inserted) - 3
                         THEN str_join(<<inserted[i], ", ">>)
                         ELSE inserted[i]]
             IN  str_join(with_commas)

\* format_names, the same in both scripts.
format_names(nms) ==
    LET formatted == stripped_names(nms)
    IN  IF Len(formatted) = 1 THEN formatted[1]
        ELSE IF Len(formatted) = 2
        THEN str_join(<<formatted[1], " and ", formatted[2]>>)
        ELSE LET inserted == list_insert_before_last(formatted, "and ")
                 \* for i in xrange(len(formatted_names) - 2)
                 with_commas ==
                     [i \in 1..Len(inserted) |->
                         IF i <= Len(inserted) - 2
                         THEN str_join(<<inserted[i], ", ">>)
                         ELSE inserted[i]]
             IN  str_join(with_commas)

\* remove_targets of remove_special, in order.
remove_targets == <<"{", "\\", "'", "\"", "}">>

RECURSIVE remove_all(_, _)
remove_all(s, targets) ==
    IF targets = <<>> THEN s
    ELSE remove_all(str_replace(s, Head(targets), ""), Tail(targets))

\* A remove_special that leaves the quote characters in place.
remove_special_keeps_quotes(e) == remove_all(e, <<"{", "\\", "}">>)

remove_special(e) == remove_all(e, remove_targets)

\* name.split()[-1]
last_token(name) ==
    LET tokens == str_split_ws(name)
    IN  tokens[Len(tokens)]

\* A bibtex_citation that abbreviates two authors as it does three.
bibtex_citation_etal_for_two(nms, yr) ==
    LET formatted == stripped_names(nms)
        citation ==
            IF Len(formatted) = 1
            THEN last_token(formatted[1]) \o yr
            ELSE last_token(formatted[1]) \o "EtAl" \o yr
    IN  remove_special(citation)

\* bibtex_citation of publications_parser.py; year is the str of the record.
bibtex_citation(nms, yr) ==
    LET formatted == stripped_names(nms)
        citation ==
            IF Len(formatted) = 1
            THEN last_token(formatted[1]) \o yr
            ELSE IF Len(formatted) = 2
            THEN last_token(formatted[1]) \o last_token(formatted[2]) \o yr
            ELSE last_token(formatted[1]) \o "EtAl" \o yr
    IN  remove_special(citation)

(***************************************************************************)
(* Inputs of the name formatter: an author line of the database, that is   *)
(* names joined by " and ", stripped as process_database strips each line. *)
(***************************************************************************)
AuthorNames ==
    {"William Stein", "David Joyner", "A", "B", "C", "Paul O'Brien", "C D ",
     "P Erd{\\\"o}s"}

NameYears == {"2007", "2010"}

RECURSIVE join_and(_)
join_and(name_list) ==
    IF Len(name_list) = 1 THEN name_list[1]
    ELSE name_list[1] \o " and " \o join_and(Tail(name_list))

AuthorLines ==
    {str_strip(join_and(name_list)) :
        name_list \in SeqsUpTo(AuthorNames, MaxNames) \ {<<>>}}

InitNames ==
    /\ pc = "names"
    /\ script \in Scripts
    /\ names \in AuthorLines
    /\ names_year \in NameYears
    /\ formatted_names = ""
    /\ citation_name = ""
    /\ SortIdle /\ ClassifyIdle /\ ReplaceIdle /\ BibtexIdle
    /\ RenderIdle /\ DriverIdle /\ SpliceIdle /\ DatabaseIdle

FormatNames ==
    /\ pc = "names"
    /\ formatted_names' = format_names(names)
    /\ pc' = "format_names.return"
    /\ UNCHANGED <<script, names, names_year, citation_name, sortVars,
                   classifyVars, replaceVars, bibtexVars,
                   renderVars, driverVars, spliceVars,
                   databaseVars>>

BibtexCitation ==
    /\ pc = "names"
    /\ script = "publications_parser"
    /\ citation_name' = bibtex_citation(names, names_year)
    /\ pc' = "bibtex_citation.return"
    /\ UNCHANGED <<script, names, names_year, formatted_names, sortVars,
                   classifyVars, replaceVars, bibtexVars,
                   renderVars, driverVars, spliceVars,
                   databaseVars>>

NextNames == FormatNames \/ BibtexCitation

SpecNames == InitNames /\ [][NextNames]_vars

(***************************************************************************)
(* The head of a BibTeX stanza.                                            *)
(***************************************************************************)

format_author_title(e, entry_type) ==
    LET line1 == "@" \o entry_type \o "{"
                 \o bibtex_citation(e["author"], e["year"]) \o ",\n"
        line2 == "  author = {" \o str_strip(e["author"]) \o "},\n"
        line3 == "  title = {" \o str_strip(e["title"]) \o "},\n"
    IN  line1 \o line2 \o line3

(***************************************************************************)
(* Inputs of format_author_title: the entries that the format functions of *)
(* one output_bibtex run pass to it, in output order.                      *)
(***************************************************************************)
BibtexRecords ==
    [author : {"William Stein", "William Stein and David Joyner"},
     title : {"T1", "T2"},
     year : {"2005", "2007"}]

BibtexEntries == [entry : BibtexRecords, entry_type : {"article", "book"}]

InitBibtex ==
    /\ pc = "output_bibtex"
    /\ script = "publications_parser"
    /\ bibtex_entries \in SeqsUpTo(BibtexEntries, MaxPubs)
    /\ stanza_heads = <<>>
    /\ SortIdle /\ ClassifyIdle /\ NameIdle /\ ReplaceIdle
    /\ RenderIdle /\ DriverIdle /\ SpliceIdle /\ DatabaseIdle

\* The call of format_author_title for the next entry of the output.
FormatAuthorTitle ==
    /\ pc = "output_bibtex"
    /\ Len(stanza_heads) < Len(bibtex_entries)
    /\ LET next == bibtex_entries[Len(stanza_heads) + 1]
       IN  stanza_heads' =
               Append(stanza_heads,
                      format_author_title(next.entry, next.entry_type))
    /\ UNCHANGED <<pc, script, bibtex_entries, sortVars, classifyVars,
                   nameVars, replaceVars,
                   renderVars, driverVars, spliceVars,
                   databaseVars>>

NextBibtex == FormatAuthorTitle

SpecBibtex == InitBibtex /\ [][NextBibtex]_vars

(***************************************************************************)
(* Properties of the publication sorter.                                   *)
(***************************************************************************)

\* The record that the p-th entry of the result refers to.
Referenced(p) == publications[sorted_publications[p] + 1]

\* Input positions (1-based) i and j hold records of the same year whose
\* first authors have the same surname.
Tie(i, j) ==
    /\ publications[i].year = publications[j].year
    /\ surname(publications[i].author) = surname(publications[j].author)

\* C1: the records referenced by the result of sort_publications have
\* non-decreasing years (string comparison) and, within one year,
\* non-decreasing first-author surnames (case-sensitive comparison).
C1_SortedByYearThenSurname ==
    pc = "sorted" =>
        \A p, q \in 1..Len(sorted_publications) :
            p < q =>
                /\ str_le(Referenced(p).year, Referenced(q).year)
                /\ Referenced(p).year = Referenced(q).year =>
                       str_le(surname(Referenced(p).author),
                              surname(Referenced(q).author))

\* A sorted input of three records in which both the years and, within a
\* year, the surnames were out of order.
C1_Witness ==
    /\ pc = "sorted"
    /\ Len(publications) = 3
    /\ \E i, j \in 1..3 :
           i < j /\ str_lt(publications[j].year, publications[i].year)
    /\ \E i, j \in 1..3 :
           /\ i < j
           /\ publications[i].year = publications[j].year
           /\ str_lt(surname(publications[j].author),
                     surname(publications[i].author))

\* C2: the result of sort_publications is a permutation of the positions
\* 0..n-1 of its input: length n, every position exactly once.
C2_IsPermutation ==
    pc = "sorted" =>
        /\ Len(sorted_publications) = Len(publications)
        /\ \A k \in 0..(Len(publications) - 1) :
               Cardinality({p \in 1..Len(sorted_publications) :
                               sorted_publications[p] = k}) = 1

\* C3: two records that share the year and the first-author surname appear
\* in the result in their input order.
C3_StableOnTies ==
    pc = "sorted" =>
        \A i, j \in 1..Len(publications) :
            (i < j /\ Tie(i, j)) =>
                /\ \E p, q \in 1..Len(sorted_publications) :
                       /\ p < q
                       /\ sorted_publications[p] = i - 1
                       /\ sorted_publications[q] = j - 1
                /\ \A p, q \in 1..Len(sorted_publications) :
                       (sorted_publications[p] = i - 1
                        /\ sorted_publications[q] = j - 1) => p < q

\* The example of the specification: years 2005, 1999, 2005 and first
\* authors Zed A, Adam B, Alex C, in that input order.
IsSortExample ==
    /\ Len(publications) = 3
    /\ publications[1].year = "2005" /\ publications[1].author = "Zed A"
    /\ publications[2].year = "1999" /\ publications[2].author = "Adam B"
    /\ publications[3].year = "2005" /\ publications[3].author = "Alex C"

\* C4 as stated: the example sorts to the index order [1, 2, 0].
C4_ExampleAsStated ==
    (pc = "sorted" /\ IsSortExample) => sorted_publications = <<1, 2, 0>>

\* C4, amended: the example sorts to the index order [1, 0, 2], because the
\* surnames compared are the last tokens A and C, not Zed and Alex.
C4_ExampleOrder ==
    (pc = "sorted" /\ IsSortExample) => sorted_publications = <<1, 0, 2>>

C4_Witness == pc = "sorted" /\ IsSortExample

(***************************************************************************)
(* Properties of the special character passes.                             *)
(***************************************************************************)

\* C5: replace_special is idempotent: applying it to its own result returns
\* that result unchanged, in both scripts.
C5_ReplaceSpecialIdempotent ==
    pc = "replaced_again" => cleansed_entry = entry

(***************************************************************************)
(* Properties of the entry classifier.                                     *)
(***************************************************************************)

Range(seq) == {seq[i] : i \in 1..Len(seq)}

\* The record has a note attribute whose value contains 'thesis'.
HasThesisNote(item) ==
    /\ "note" \in DOMAIN item
    /\ \E i \in 1..Len(item["note"]) : MatchAt(item["note"], i, "thesis")

\* C6: a misc record is placed in undergraduatetheses if and only if it has
\* a note attribute whose value contains 'thesis'; every other record, one
\* without a note attribute included, is placed in preprints, and no error
\* is raised.
C6_ClassifiedByThesisNote ==
    /\ pc # "KeyError"
    /\ pc = "filtered" =>
           \A i \in 1..Len(publications) :
               LET item == publications[i]
               IN  IF HasThesisNote(item)
                   THEN /\ item \in Range(miscs.undergraduatetheses)
                        /\ item \notin Range(miscs.preprints)
                   ELSE /\ item \in Range(miscs.preprints)
                        /\ item \notin Range(miscs.undergraduatetheses)

\* A classified input of pubparse.py that holds a record without a note
\* attribute, a record with a thesis note and a record with another note.
C6_Witness ==
    /\ pc = "filtered"
    /\ script = "pubparse"
    /\ \E i \in 1..Len(publications) :
           /\ "note" \notin DOMAIN publications[i]
           /\ publications[i] \in Range(miscs.preprints)
    /\ \E i \in 1..Len(publications) :
           /\ HasThesisNote(publications[i])
           /\ publications[i] \in Range(miscs.undergraduatetheses)
    /\ \E i \in 1..Len(publications) :
           /\ "note" \in DOMAIN publications[i]
           /\ ~HasThesisNote(publications[i])

\* The elements of seq at the positions in idx, in increasing position.
RECURSIVE SubseqAt(_, _)
SubseqAt(seq, idx) ==
    IF idx = {} THEN <<>>
    ELSE LET m == CHOOSE i \in idx : \A j \in idx : i <= j
         IN  <<seq[m]>> \o SubseqAt(seq, idx \ {m})

\* The two lists split the positions of the input between them and each
\* keeps the input order.
StablePartition ==
    \E idx \in SUBSET (1..Len(publications)) :
        /\ miscs.preprints = SubseqAt(publications, idx)
        /\ miscs.undergraduatetheses =
               SubseqAt(publications, (1..Len(publications)) \ idx)

\* C7: filter_undergraduate_theses leaves its input unchanged and returns a
\* stable partition of it: every record in exactly one of the two lists,
\* each list in input order.
C7_StablePartitionInputUnchanged ==
    [][(pc = "filter_undergraduate_theses" /\ pc' = "filtered") =>
           (publications' = publications /\ StablePartition')]_vars

\* A classified input with two different preprints and a thesis.
C7_Witness ==
    /\ pc = "filtered"
    /\ Len(miscs.preprints) >= 2
    /\ miscs.preprints[1] # miscs.preprints[2]
    /\ Len(miscs.undergraduatetheses) >= 1

(***************************************************************************)
(* Properties of the name formatter and of the citation key.               *)
(***************************************************************************)

\* The names of a line: the pieces between the separators " and ".
NamesOf(line) == str_split(line, " and ")

Trimmed(name_list) == [i \in 1..Len(name_list) |-> str_strip(name_list[i])]

\* Each name followed by ", ".
RECURSIVE EachWithComma(_)
EachWithComma(name_list) ==
    IF name_list = <<>> THEN ""
    ELSE Head(name_list) \o ", " \o EachWithComma(Tail(name_list))

\* One name: the name; two: 'A and B'; n >= 3: the first n-1 names each
\* followed by ', ', then 'and ' and the last name.
DisplayForm(name_list) ==
    LET n == Len(name_list)
    IN  IF n = 1 THEN name_list[1]
        ELSE IF n = 2 THEN name_list[1] \o " and " \o name_list[2]
        ELSE EachWithComma(SubSeq(name_list, 1, n - 1))
             \o "and " \o name_list[n]

\* C8: format_names returns the display form of the names of its input (a
\* name is what stands between the separators, without the whitespace
\* around it): the single name unchanged, 'A and B' for two names, and for
\* n >= 3 names the first n-1 names each followed by ', ', then 'and ' and
\* the last name.
C8_DisplayFormOfNames ==
    pc = "format_names.return" =>
        /\ formatted_names = DisplayForm(Trimmed(NamesOf(names)))
        /\ Len(NamesOf(names)) = 1 => formatted_names = names

\* format_names returned for three or more names, one of them padded.
C8_Witness ==
    /\ pc = "format_names.return"
    /\ Len(NamesOf(names)) >= 3
    /\ Trimmed(NamesOf(names)) # NamesOf(names)

\* The final whitespace-delimited token of a name.
RECURSIVE FinalToken(_)
FinalToken(name) ==
    LET t == str_rstrip(name)
    IN  IF \E i \in 1..Len(t) : CharAt(t, i) = " "
        THEN FinalToken(Tail(t))
        ELSE t

\* Surname+year, Surname1+Surname2+year, or Surname1+'EtAl'+year.
KeyForm(name_list, yr) ==
    LET n == Len(name_list)
    IN  IF n = 1 THEN FinalToken(name_list[1]) \o yr
        ELSE IF n = 2
        THEN FinalToken(name_list[1]) \o FinalToken(name_list[2]) \o yr
        ELSE FinalToken(name_list[1]) \o "EtAl" \o yr

\* s without its characters that are in chars.
RECURSIVE Without(_, _)
Without(s, chars) ==
    IF s = "" THEN ""
    ELSE IF Head(s) \in chars THEN Without(Tail(s), chars)
    ELSE Head(s) \o Without(Tail(s), chars)

SpecialChars == {"{", "}", "\\", "'", "\""}

\* C9 as stated: bibtex_citation returns the key form of the author names
\* and the year.
C9_KeyFormAsStated ==
    pc = "bibtex_citation.return" =>
        citation_name = KeyForm(NamesOf(names), names_year)

\* C9, amended: bibtex_citation returns the key form of the author names
\* and the year with every character {, }, backslash, ' and " deleted.
C9_KeyFormWithoutSpecialChars ==
    pc = "bibtex_citation.return" =>
        citation_name =
            Without(KeyForm(NamesOf(names), names_year), SpecialChars)

\* bibtex_citation returned for two authors, the second with a quote in the
\* surname.
C9_Witness ==
    /\ pc = "bibtex_citation.return"
    /\ names = "William Stein and Paul O'Brien"
    /\ citation_name = "SteinOBrien2007"

\* The citation key of a stanza head: the text between '{' and ','.
RECURSIVE UpTo(_, _)
UpTo(s, c) ==
    IF s = "" \/ Head(s) = c THEN "" ELSE Head(s) \o UpTo(Tail(s), c)

RECURSIVE After(_, _)
After(s, c) ==
    IF s = "" THEN "" ELSE IF Head(s) = c THEN Tail(s) ELSE After(Tail(s), c)

CitationKeyOf(stanza) == UpTo(After(stanza, "{"), ",")

\* C10: in one BibTeX output no two distinct records receive the same
\* citation key.
C10_CitationKeysUnique ==
    \A i, j \in 1..Len(stanza_heads) :
        bibtex_entries[i].entry # bibtex_entries[j].entry =>
            CitationKeyOf(stanza_heads[i]) # CitationKeyOf(stanza_heads[j])

(***************************************************************************)
(* C11: the citation key is free of special characters.                    *)
(***************************************************************************)
RECURSIVE CountIn(_, _)
CountIn(s, chars) ==
    IF s = "" THEN 0
    ELSE (IF Head(s) \in chars THEN 1 ELSE 0) + CountIn(Tail(s), chars)

\* C11: the citation key returned by bibtex_citation contains none of the
\* characters {, }, backslash, ' and "; they are deleted, not replaced, so
\* the key is shorter than the key form by the number of such characters.
C11_KeyFreeOfSpecialChars ==
    pc = "bibtex_citation.return" =>
        LET raw == KeyForm(NamesOf(names), names_year)
        IN  /\ CountIn(citation_name, SpecialChars) = 0
            /\ Len(citation_name) = Len(raw) - CountIn(raw, SpecialChars)

\* bibtex_citation returned for an author whose surname has braces, a
\* backslash and a double quote.
C11_Witness ==
    /\ pc = "bibtex_citation.return"
    /\ names = "P Erd{\\\"o}s"
    /\ citation_name = "Erdos2010"

(***************************************************************************)
(* The renderer: html_title, the format functions and remove_blanks.       *)
(* The outcome of a call is the returned str, or the exception raised and  *)
(* its argument.                                                           *)
(***************************************************************************)

ReturnedStr(s) == [raised |-> "", arg |-> "", value |-> s]

RaisedWith(exception, argument) ==
    [raised |-> exception, arg |-> argument, value |-> ""]

\* The first key of accessed that entry[key] fails on, "" when there is none.
RECURSIVE first_missing(_, _)
first_missing(e, accessed) ==
    IF accessed = <<>> THEN ""
    ELSE IF Head(accessed) \notin DOMAIN e THEN Head(accessed)
    ELSE first_missing(e, Tail(accessed))

\* s.find(sub): the 0-based position of the first occurrence, -1 if none.
str_find(s, sub) ==
    IF str_contains(s, sub)
    THEN (CHOOSE i \in 1..(Len(s) + 1) :
              MatchAt(s, i, sub) /\ \A j \in 1..(i - 1) : ~MatchAt(s, j, sub)) - 1
    ELSE -1

\* s[i:] for a 0-based i that may be negative.
str_slice_from(s, i) ==
    IF i >= 0 THEN SubSeq(s, i + 1, Len(s))
    ELSE IF Len(s) + i >= 0 THEN SubSeq(s, Len(s) + i + 1, Len(s))
    ELSE s

replace_special_url(url) == str_replace(url, "&", "&amp;")

\* html_title of pubparse.py.
pubparse_html_title(publication) ==
    IF "note" \in DOMAIN publication
       /\ str_split_ws(publication["note"]) = <<>>
    THEN RaisedWith("IndexError", "list index out of range")
    ELSE IF "title" \notin DOMAIN publication
    THEN RaisedWith("KeyError", "title")
    ELSE LET url == IF "note" \in DOMAIN publication
                    THEN replace_special_url(
                             str_split_ws(publication["note"])[1])
                    ELSE ""
             title == publication["title"]
         IN  IF url # "" /\ str_contains(url, "http://")
             THEN ReturnedStr("<a href=\"" \o url \o "\">" \o title
                              \o "</a>" \o ". ")
             ELSE ReturnedStr(title \o ". ")

\* html_title of publications_parser.py.
parser_html_title(publication) ==
    IF "title" \notin DOMAIN publication
    THEN RaisedWith("KeyError", "title")
    ELSE LET url == IF "url" \in DOMAIN publication
                    THEN replace_special_url(str_strip(publication["url"]))
                    ELSE ""
             title == str_strip(publication["title"])
         IN  IF url # ""
             THEN ReturnedStr("<a href=\"" \o url \o "\">" \o title
                              \o "</a>" \o ". ")
             ELSE ReturnedStr(title \o ". ")

html_title(scr, publication) ==
    IF scr = "pubparse" THEN pubparse_html_title(publication)
    ELSE parser_html_title(publication)

\* The fragment of an optional attribute: prefix + e[attribute] + suffix if
\* e has the attribute, nothing otherwise.
optional(e, attribute, prefix, suffix) ==
    IF attribute \in DOMAIN e
    THEN prefix \o e[attribute] \o suffix
    ELSE ""

\* The common frame of the format functions of pubparse.py: the author and
\* the title, then the kind's part; htmlstr.strip() and replace_special at
\* the end.  mandatory lists the keys that the kind's part reads with
\* entry[key], in the order of the reads.
pubparse_format(e, mandatory, part) ==
    IF "author" \notin DOMAIN e THEN RaisedWith("KeyError", "author")
    ELSE LET title == pubparse_html_title(e)
         IN  IF title.raised # "" THEN title
             ELSE IF first_missing(e, mandatory) # ""
             THEN RaisedWith("KeyError", first_missing(e, mandatory))
             ELSE ReturnedStr(pubparse_replace_special(str_strip(
                      format_names(e["author"]) \o ". " \o title.value
                      \o part)))

pubparse_format_articles(article) ==
    pubparse_format(article, <<"journal", "year">>,
        article["journal"] \o ", "
        \o optional(article, "volume", "volume ", ", ")
        \o optional(article, "number", "number ", ", ")
        \o optional(article, "pages", "pages ", ", ")
        \o article["year"] \o ".")

\* A format_books that leaves out the full stop after the year.
pubparse_format_books_no_period(book) ==
    pubparse_format(book, <<"publisher", "year">>,
        (IF "edition" \in DOMAIN book
         THEN book["edition"] \o " edition, " ELSE "")
        \o book["publisher"] \o ", " \o book["year"])

pubparse_format_books(book) ==
    pubparse_format(book, <<"publisher", "year">>,
        (IF "edition" \in DOMAIN book
         THEN book["edition"] \o " edition, " ELSE "")
        \o book["publisher"] \o ", " \o book["year"] \o ".")

pubparse_format_collections(e) ==
    pubparse_format(e, <<"booktitle", "year">>,
        (IF "editor" \in DOMAIN e
         THEN "In " \o format_names(e["editor"]) \o " (ed.). " ELSE "")
        \o e["booktitle"] \o ". "
        \o optional(e, "publisher", "", ", ")
        \o optional(e, "pages", "pages ", ", ")
        \o e["year"] \o ".")

pubparse_format_masterstheses(thesis) ==
    pubparse_format(thesis, <<"school", "year">>,
        "Masters thesis, " \o thesis["school"] \o ", "
        \o optional(thesis, "address", "", ", ")
        \o thesis["year"] \o ".")

pubparse_format_phdtheses(thesis) ==
    pubparse_format(thesis, <<"school", "year">>,
        "PhD thesis, " \o thesis["school"] \o ", "
        \o optional(thesis, "address", "", ", ")
        \o thesis["year"] \o ".")

\* The note of an undergraduate thesis without its leading URL.
thesis_note(e) ==
    LET note == e["note"]
    IN  IF str_contains(note, "http://")
        THEN str_strip(str_slice_from(note, str_find(note, " ")))
        ELSE note

pubparse_format_miscs(e, thesis) ==
    pubparse_format(e,
        IF thesis THEN <<"note", "year">> ELSE <<"year">>,
        optional(e, "howpublished", "", ", ")
        \o (IF thesis THEN thesis_note(e) \o ", " ELSE "")
        \o e["year"] \o ".")

pubparse_format_techreports(report) ==
    pubparse_format(report, <<"institution", "year">>,
        report["institution"] \o ", "
        \o optional(report, "address", "", ", ")
        \o optional(report, "number", "technical report number ", ", ")
        \o report["year"] \o ".")

pubparse_format_proceedings(article) ==
    pubparse_format(article, <<"booktitle", "year">>,
        LET before_pages ==
                (IF "editor" \in DOMAIN article
                 THEN "In " \o format_names(article["editor"]) \o " (ed.). "
                 ELSE "")
                \o article["booktitle"] \o ". "
                \o optional(article, "publisher", "", ", ")
                \o optional(article, "series", "", ", ")
                \o optional(article, "volume", "volume ", ", ")
            \* htmlstr.strip() where the pages are appended: "Pages" after
            \* a full stop
            stripped ==
                str_strip(format_names(article["author"]) \o ". "
                          \o pubparse_html_title(article).value
                          \o before_pages)
        IN  before_pages
            \o (IF "pages" \notin DOMAIN article THEN ""
                ELSE IF CharAt(stripped, Len(stripped)) = "."
                THEN "Pages " \o article["pages"] \o ", "
                ELSE "pages " \o article["pages"] \o ", ")
            \o article["year"] \o ".")

pubparse_format_unpublisheds(e) ==
    pubparse_format(e, <<"year">>,
        optional(e, "month", "", ", ")
        \o e["year"] \o ".")

pubparse_format_html(k, e) ==
    CASE k = "article" -> pubparse_format_articles(e)
      [] k = "book" -> pubparse_format_books(e)
      [] k = "incollection" -> pubparse_format_collections(e)
      [] k = "inproceedings" -> pubparse_format_proceedings(e)
      [] k = "mastersthesis" -> pubparse_format_masterstheses(e)
      [] k = "phdthesis" -> pubparse_format_phdtheses(e)
      [] k = "techreport" -> pubparse_format_techreports(e)
      [] k = "unpublished" -> pubparse_format_unpublisheds(e)
      [] k = "misc" ->
            \* output_html formats miscs["undergraduatetheses"] with
            \* thesis=True and miscs["preprints"] with thesis=False
            pubparse_format_miscs(e,
                filter_undergraduate_theses("pubparse", <<e>>)
                    .undergraduatetheses # <<>>)

\* The sets of keys that dict(zip(entry.values(), entry.keys())) can keep:
\* one key for each value of values, the key that the iteration of the
\* dict yields last among the keys with that value.
RECURSIVE surviving_keys(_, _)
surviving_keys(e, values) ==
    IF values = {} THEN {{}}
    ELSE LET v == CHOOSE x \in values : TRUE
         IN  {{k} \cup rest :
                 k \in {a \in DOMAIN e : e[a] = v},
                 rest \in surviving_keys(e, values \ {v})}

\* remove_blanks of publications_parser.py: the dictionaries that the call
\* can return.  The entry is inverted (value -> key), BLANK is deleted and
\* the result is inverted back.
remove_blanks(e) ==
    {[k \in kept |-> e[k]] :
        kept \in surviving_keys(e, {e[a] : a \in DOMAIN e} \ {BLANK})}

\* format_books(books, output="html") of publications_parser.py on the
\* entry that remove_blanks returned.
parser_format_books_html(book_noblanks) ==
    IF "author" \notin DOMAIN book_noblanks
    THEN RaisedWith("KeyError", "author")
    ELSE LET title == parser_html_title(book_noblanks)
         IN  IF title.raised # "" THEN title
             ELSE IF first_missing(book_noblanks, <<"publisher", "year">>) # ""
             THEN RaisedWith("KeyError",
                      first_missing(book_noblanks, <<"publisher", "year">>))
             ELSE ReturnedStr(parser_replace_special(str_strip(
                      format_names(book_noblanks["author"]) \o ". "
                      \o title.value
                      \o (IF "edition" \in DOMAIN book_noblanks
                          THEN str_strip(book_noblanks["edition"])
                               \o " edition, "
                          ELSE "")
                      \o str_strip(book_noblanks["publisher"]) \o ", "
                      \o str_strip(book_noblanks["year"]) \o ".")))

\* One line of a BibTeX stanza.
bibtex_line(attribute, value) ==
    "  " \o attribute \o " = {" \o str_strip(value) \o "},\n"

\* What the BibTeX branch of the format function of each kind appends
\* after format_author_title, statement by statement: the lines, each as
\* <<attribute, name of the line, TRUE for entry[attribute] or FALSE for
\* "if attribute in entry">>, and the closing text.  A url is written as a
\* note line; format_masterstheses appends no "}".
bibtex_layout(k) ==
    CASE k = "article" ->
            [lines |-> << <<"journal", "journal", TRUE>>,
                          <<"volume", "volume", FALSE>>,
                          <<"number", "number", FALSE>>,
                          <<"pages", "pages", FALSE>>,
                          <<"year", "year", TRUE>>,
                          <<"url", "note", FALSE>> >>,
             closing |-> "}"]
      [] k = "book" ->
            [lines |-> << <<"edition", "edition", FALSE>>,
                          <<"publisher", "publisher", TRUE>>,
                          <<"year", "year", TRUE>>,
                          <<"url", "note", FALSE>> >>,
             closing |-> "}"]
      [] k = "incollection" ->
            [lines |-> << <<"editor", "editor", FALSE>>,
                          <<"booktitle", "booktitle", TRUE>>,
                          <<"publisher", "publisher", FALSE>>,
                          <<"pages", "pages", FALSE>>,
                          <<"year", "year", TRUE>>,
                          <<"url", "note", FALSE>> >>,
             closing |-> "}"]
      [] k = "inproceedings" ->
            [lines |-> << <<"editor", "editor", FALSE>>,
                          <<"booktitle", "booktitle", TRUE>>,
                          <<"publisher", "publisher", FALSE>>,
                          <<"series", "series", FALSE>>,
                          <<"volume", "volume", FALSE>>,
                          <<"pages", "pages", FALSE>>,
                          <<"url", "note", FALSE>>,
                          <<"year", "year", TRUE>> >>,
             closing |-> "}"]
      [] k = "mastersthesis" ->
            [lines |-> << <<"school", "school", TRUE>>,
                          <<"address", "address", FALSE>>,
                          <<"year", "year", TRUE>>,
                          <<"url", "note", FALSE>> >>,
             closing |-> ""]
      [] k = "misc" ->
            [lines |-> << <<"howpublished", "howpublished", FALSE>>,
                          <<"note", "note", FALSE>>,
                          <<"year", "year", TRUE>>,
                          <<"url", "note", FALSE>> >>,
             closing |-> "}"]
      [] k = "phdthesis" ->
            [lines |-> << <<"school", "school", TRUE>>,
                          <<"address", "address", FALSE>>,
                          <<"year", "year", TRUE>>,
                          <<"url", "note", FALSE>> >>,
             closing |-> "}"]
      [] k = "unpublished" ->
            [lines |-> << <<"note", "note", FALSE>>,
                          <<"month", "month", FALSE>>,
                          <<"year", "year", TRUE>>,
                          <<"url", "note", FALSE>> >>,
             closing |-> "}"]

RECURSIVE bibtex_lines(_, _)
bibtex_lines(e, layout_lines) ==
    IF layout_lines = <<>> THEN ""
    ELSE LET line == Head(layout_lines)
         IN  (IF line[3] \/ line[1] \in DOMAIN e
              THEN bibtex_line(line[2], e[line[1]])
              ELSE "")
             \o bibtex_lines(e, Tail(layout_lines))

\* The BibTeX branch of the format function of kind k on the entry that
\* remove_blanks returned: format_author_title, the kind's lines,
\* bibtexstr.strip().
parser_format_bibtex(k, e) ==
    LET layout == bibtex_layout(k)
        mandatory == SelectSeq(layout.lines, LAMBDA line : line[3])
        missing ==
            first_missing(e, <<"author", "year", "title">>
                             \o [i \in 1..Len(mandatory) |-> mandatory[i][1]])
    IN  IF missing # "" THEN RaisedWith("KeyError", missing)
        ELSE ReturnedStr(str_strip(
                 format_author_title(e, k)
                 \o bibtex_lines(e, layout.lines) \o layout.closing))

(***************************************************************************)
(* Inputs of the renderer.  pubparse.py renders the dictionary that        *)
(* extract_publication copies from the fields of a BibTeX entry: it has    *)
(* the attributes that the entry has, and a field may be empty.            *)
(* publications_parser.py renders a record of process_database, which has  *)
(* every attribute of the kind's attribute list, "<BLANK>" for an absent   *)
(* one.                                                                    *)
(***************************************************************************)
pubparse_mandatory(k) ==
    CASE k = "article" -> {"author", "title", "journal", "year"}
      [] k = "book" -> {"author", "title", "publisher", "year"}
      [] k = "incollection" -> {"author", "title", "booktitle", "year"}
      [] k = "inproceedings" -> {"author", "title", "booktitle", "year"}
      [] k = "mastersthesis" -> {"author", "title", "school", "year"}
      [] k = "misc" -> {"author", "title", "year"}
      [] k = "phdthesis" -> {"author", "title", "school", "year"}
      [] k = "techreport" -> {"author", "title", "institution", "year"}
      [] k = "unpublished" -> {"author", "title", "year"}

\* The optional attributes of a kind, in the order in which the kind's
\* format function tests them.
pubparse_optional(k) ==
    CASE k = "article" -> <<"volume", "number", "pages">>
      [] k = "book" -> <<"edition">>
      [] k = "incollection" -> <<"editor", "publisher", "pages">>
      [] k = "inproceedings" ->
            <<"editor", "publisher", "series", "volume", "pages">>
      [] k = "mastersthesis" -> <<"address">>
      [] k = "misc" -> <<"howpublished">>
      [] k = "phdthesis" -> <<"address">>
      [] k = "techreport" -> <<"address", "number">>
      [] k = "unpublished" -> <<"month">>

\* The attribute lists of publications_parser.py.
parser_attributes(k) ==
    CASE k = "article" ->
            <<"author", "title", "journal", "volume", "number", "pages",
              "year", "note", "url">>
      [] k = "book" ->
            <<"author", "title", "edition", "publisher", "year", "url">>
      [] k = "incollection" ->
            <<"author", "title", "editor", "booktitle", "pages", "publisher",
              "year", "url">>
      [] k = "inproceedings" ->
            <<"author", "title", "editor", "booktitle", "publisher", "series",
              "volume", "pages", "year", "note", "url">>
      [] k = "mastersthesis" ->
            <<"author", "title", "school", "address", "year", "url">>
      [] k = "misc" -> misc_attributes
      [] k = "phdthesis" ->
            <<"author", "title", "school", "address", "year", "url">>
      [] k = "unpublished" ->
            <<"author", "title", "note", "month", "year", "url">>

\* The value of an attribute that a record has.
AttributeValue(attribute) ==
    CASE attribute = "author" -> "Al Ed and Bo Li"
      [] attribute = "title" -> "On {X}"
      [] attribute = "journal" -> "J Alg"
      [] attribute = "volume" -> "1"
      [] attribute = "number" -> "5"
      [] attribute = "pages" -> "3-9"
      [] attribute = "year" -> "2007"
      [] attribute = "edition" -> "2nd"
      [] attribute = "publisher" -> "Springer"
      [] attribute = "editor" -> "Ed Or"
      [] attribute = "booktitle" -> "Proc Y"
      [] attribute = "series" -> "LNCS"
      [] attribute = "school" -> "MIT"
      [] attribute = "address" -> "Boston"
      [] attribute = "howpublished" -> "Preprint"
      [] attribute = "institution" -> "INRIA"
      [] attribute = "month" -> "May"
      [] attribute = "note" -> "to appear"
      [] attribute = "url" -> "http://x.org/u"

\* The records of pubparse.py.  The note of a BibTeX entry may be empty, a
\* URL, plain text, or a URL followed by the words that mark an
\* undergraduate thesis; the URL of a thesis may have the word in it.
PubparseRenderRecords(k) ==
    LET attributes ==
            pubparse_mandatory(k) \cup Range(pubparse_optional(k))
            \cup {"note", "url"}
    IN  {[a \in S |-> IF a = "note" THEN n ELSE AttributeValue(a)] :
            S \in {T \in SUBSET attributes :
                      Cardinality(pubparse_mandatory(k) \ T) <= 1},
            n \in {"", "http://x.org/a", "https://x.org/a", "to appear",
                   "http://x.org/t Bachelor thesis"}
                  \cup (IF k = "misc"
                        THEN {"https://x.org/t Bachelor thesis",
                              "http://x.org/thesis"}
                        ELSE {})}

\* The records of publications_parser.py.  In the flat database the volume
\* and the number of an article may be the same text, a url may come
\* without its scheme, and a note may repeat the url.
ParserRenderRecords(k) ==
    {[a \in Range(parser_attributes(k)) |->
         IF a \notin S THEN BLANK
         ELSE IF a = "number" THEN n
         ELSE IF a = "url" THEN u
         ELSE IF a = "note" THEN t
         ELSE AttributeValue(a)] :
        S \in SUBSET Range(parser_attributes(k)),
        n \in {"1", "5"},
        u \in {"http://x.org/u", "x.org/u"},
        t \in {"to appear", "http://x.org/u"}}

\* The kinds of entry that process_database of each script accepts.
RenderKinds(scr) ==
    {"article", "book", "incollection", "inproceedings", "mastersthesis",
     "misc", "phdthesis", "unpublished"}
    \cup (IF scr = "pubparse" THEN {"techreport"} ELSE {})

InitRender ==
    /\ pc = "render"
    /\ script \in Scripts
    /\ kind \in RenderKinds(script)
    /\ record \in (IF script = "pubparse" THEN PubparseRenderRecords(kind)
                   ELSE ParserRenderRecords(kind))
    /\ entry_noblanks = EmptyEntry
    /\ rendered = NoOutcome
    /\ SortIdle /\ ClassifyIdle /\ NameIdle /\ ReplaceIdle /\ BibtexIdle
    /\ DriverIdle /\ SpliceIdle /\ DatabaseIdle

Outcome(call, result) ==
    IF result.raised = "" THEN call \o ".return" ELSE call \o ".raise"

\* html_title(publication): pubparse.py passes the record, the format
\* functions of publications_parser.py pass remove_blanks(record).
HtmlTitle ==
    /\ pc = "render"
    /\ \E publication \in
            IF script = "pubparse" THEN {record} ELSE remove_blanks(record) :
            /\ rendered' = html_title(script, publication)
            /\ entry_noblanks' =
                   IF script = "pubparse" THEN entry_noblanks ELSE publication
    /\ pc' = Outcome("html_title", rendered')
    /\ UNCHANGED <<script, kind, record, sortVars, classifyVars, nameVars,
                   replaceVars, bibtexVars, driverVars, spliceVars,
                   databaseVars>>

\* The HTML format function of the record's kind, on the one record.
FormatHtml ==
    /\ pc = "render"
    /\ \/ /\ script = "pubparse"
          /\ rendered' = pubparse_format_html(kind, record)
          /\ UNCHANGED entry_noblanks
       \/ /\ script = "publications_parser"
          /\ kind = "book"
          /\ \E book_noblanks \in remove_blanks(record) :
                /\ rendered' = parser_format_books_html(book_noblanks)
                /\ entry_noblanks' = book_noblanks
    /\ pc' = Outcome("format_html", rendered')
    /\ UNCHANGED <<script, kind, record, sortVars, classifyVars, nameVars,
                   replaceVars, bibtexVars, driverVars, spliceVars,
                   databaseVars>>

\* The BibTeX branch of the format function of the record's kind.
FormatBibtex ==
    /\ pc = "render"
    /\ script = "publications_parser"
    /\ \E noblanks \in remove_blanks(record) :
          /\ rendered' = parser_format_bibtex(kind, noblanks)
          /\ entry_noblanks' = noblanks
    /\ pc' = Outcome("format_bibtex", rendered')
    /\ UNCHANGED <<script, kind, record, sortVars, classifyVars, nameVars,
                   replaceVars, bibtexVars, driverVars, spliceVars,
                   databaseVars>>

RemoveBlanks ==
    /\ pc = "render"
    /\ script = "publications_parser"
    /\ entry_noblanks' \in remove_blanks(record)
    /\ pc' = "remove_blanks.return"
    /\ UNCHANGED <<script, kind, record, rendered, sortVars, classifyVars,
                   nameVars, replaceVars, bibtexVars, driverVars, spliceVars,
                   databaseVars>>

NextRender == HtmlTitle \/ FormatHtml \/ FormatBibtex \/ RemoveBlanks

SpecRender == InitRender /\ [][NextRender]_vars

(***************************************************************************)
(* C12 .. C17: the renderer.                                               *)
(***************************************************************************)

\* The record has the attribute: the key is there and, in the flat database
\* of publications_parser.py, its value is not the blank sentinel.
Has(e, attribute) == attribute \in DOMAIN e /\ e[attribute] # BLANK

\* The mandatory attributes of the kind that the record lacks.
Lacking(k, e) == {a \in pubparse_mandatory(k) : ~Has(e, a)}

FormatHtmlDone == pc \in {"format_html.return", "format_html.raise"}

\* C12: rendering a record that lacks a mandatory attribute of its kind
\* fails with an error that identifies the missing attribute and the
\* record's title; no string is rendered.
C12_MissingFieldErrorNamesAttributeAndTitle ==
    (FormatHtmlDone /\ Lacking(kind, record) # {} /\ Has(record, "title")) =>
        /\ rendered.raised # ""
        /\ rendered.value = ""
        /\ \E a \in Lacking(kind, record) : str_contains(rendered.arg, a)
        /\ str_contains(rendered.arg, record["title"])

\* The optional attributes of each kind, in render order.
OptionalInOrder(k) ==
    CASE k = "article" -> <<"volume", "number", "pages">>
      [] k = "book" -> <<"edition">>
      [] k = "incollection" -> <<"editor", "publisher", "pages">>
      [] k = "inproceedings" ->
            <<"editor", "publisher", "series", "volume", "pages">>
      [] k \in {"mastersthesis", "phdthesis"} -> <<"address">>
      [] k = "misc" -> <<"howpublished">>
      [] k = "techreport" -> <<"address", "number">>
      [] k = "unpublished" -> <<"month">>

\* The values of the optional attributes a and b, both in the record, occur
\* in s in this order.
InOrder(s, e, a, b) == str_find(s, e[a]) < str_find(s, e[b])

\* C13: HTML rendering of a record with all mandatory attributes does not
\* raise, and the output has the value of an optional attribute if and only
\* if the record has the attribute, the values in the kind's fixed order.
C13_OptionalFragmentsInOrder ==
    (FormatHtmlDone /\ script = "pubparse" /\ Lacking(kind, record) = {}) =>
        LET optional_attributes == OptionalInOrder(kind)
        IN  /\ rendered.raised = ""
            /\ \A i \in 1..Len(optional_attributes) :
                  str_contains(rendered.value,
                               AttributeValue(optional_attributes[i]))
                      <=> optional_attributes[i] \in DOMAIN record
            /\ \A i, j \in 1..Len(optional_attributes) :
                  (/\ i < j
                   /\ optional_attributes[i] \in DOMAIN record
                   /\ optional_attributes[j] \in DOMAIN record)
                      => InOrder(rendered.value, record,
                                 optional_attributes[i],
                                 optional_attributes[j])

IsDigit(c) == c \in {"0", "1", "2", "3", "4", "5", "6", "7", "8", "9"}

FourDigitYear(e) ==
    /\ Has(e, "year")
    /\ Len(e["year"]) = 4
    /\ \A i \in 1..4 : IsDigit(CharAt(e["year"], i))

\* C14: the HTML string that a format function returns for a record with
\* a four-digit year ends with exactly one period.
C14_EndsWithOnePeriod ==
    (pc = "format_html.return" /\ FourDigitYear(record)) =>
        LET s == rendered.value
        IN  /\ Len(s) >= 2
            /\ CharAt(s, Len(s)) = "."
            /\ CharAt(s, Len(s) - 1) # "."

\* A proceedings paper with pages and no publisher, series or volume has
\* been rendered.
C14_Witness ==
    /\ pc = "format_html.return"
    /\ script = "pubparse"
    /\ kind = "inproceedings"
    /\ rendered.value = "Al Ed and Bo Li. On X. Proc Y. Pages 3-9, 2007."

\* The URL-bearing attribute of a record: url if the record has it,
\* otherwise note, otherwise nothing.
UrlBearing(e) ==
    IF Has(e, "url") THEN e["url"]
    ELSE IF Has(e, "note") THEN e["note"]
    ELSE ""

IsHyperlink(s) == MatchAt(s, 1, "<a href=")

\* C15: html_title wraps the title in a hyperlink exactly when the record's
\* URL-bearing attribute contains http:// or https://; otherwise it returns
\* the plain title followed by ". ".
C15_HyperlinkIffUrl ==
    pc = "html_title.return" =>
        LET url == UrlBearing(record)
            is_url == str_contains(url, "http://")
                      \/ str_contains(url, "https://")
        IN  /\ IsHyperlink(rendered.value) <=> is_url
            /\ ~is_url => rendered.value = str_strip(record["title"]) \o ". "

\* C16: a BibTeX stanza starts with @<kind>{<citation-key>, and the author
\* and title lines, has a year line, and its last character is "}".
C16_StanzaLayout ==
    pc = "format_bibtex.return" =>
        LET s == rendered.value
            head == "@" \o kind \o "{"
                    \o bibtex_citation(record["author"], record["year"])
                    \o ",\n  author = {" \o str_strip(record["author"])
                    \o "},\n  title = {" \o str_strip(record["title"])
                    \o "},\n"
        IN  /\ MatchAt(s, 1, head)
            /\ str_contains(s, "  year = {" \o record["year"] \o "},\n")
            /\ CharAt(s, Len(s)) = "}"

\* C17: remove_blanks returns exactly the attribute/value pairs of the
\* entry whose value is not "<BLANK>".
C17_RemoveBlanksKeepsNonBlank ==
    pc = "remove_blanks.return" =>
        entry_noblanks =
            [a \in {b \in DOMAIN record : record[b] # BLANK} |-> record[a]]

(***************************************************************************)
(* The drivers.  pubparse.py processes three databases one after the       *)
(* other, publications_parser.py one; no call is inside a try statement,   *)
(* so an exception ends the process with a traceback.  What the files hold *)
(* decides which call raises, if any: that is the fault of a database.     *)
(***************************************************************************)

\* process_database raises (no such file, a malformed or unsupported entry),
\* a format function raises (a missing attribute), or an open() raises.
Faults(scr) ==
    {"none", "process_database", "format", "open_html_r", "open_html_w"}
    \cup (IF scr = "publications_parser" THEN {"open_bibtex_w"} ELSE {})

DatabaseNames(scr) ==
    IF scr = "pubparse" THEN <<"general", "combinat", "mupad">>
    ELSE <<"publications-db">>

\* The database that the driver is at.
current == Len(attempted)

InitDriver ==
    /\ pc = "process_database"
    /\ script \in Scripts
    /\ databases \in
           [1..Len(DatabaseNames(script)) ->
               [name : Range(DatabaseNames(script)), fault : Faults(script)]]
    /\ \A i \in DOMAIN databases : databases[i].name = DatabaseNames(script)[i]
    /\ attempted = <<>>
    /\ output_files =
           [i \in DOMAIN databases |->
               IF script = "pubparse" THEN [html |-> "untouched"]
               ELSE [bibtex |-> "untouched", html |-> "untouched"]]
    /\ SortIdle /\ ClassifyIdle /\ NameIdle /\ ReplaceIdle /\ BibtexIdle
    /\ RenderIdle /\ SpliceIdle /\ DatabaseIdle

\* db = process_database(<database>)
ProcessDatabase ==
    /\ pc = "process_database"
    /\ attempted' = Append(attempted, databases[current + 1].name)
    /\ pc' = IF databases[current + 1].fault = "process_database"
             THEN "traceback"
             ELSE IF script = "pubparse" THEN "output_html.format"
             ELSE "output_bibtex"
    /\ UNCHANGED <<script, databases, output_files, sortVars, classifyVars,
                   nameVars, replaceVars, bibtexVars, renderVars, spliceVars,
                   databaseVars>>

\* output_bibtex, the first statement of output_html in
\* publications_parser.py: format the entries, then write the file.
OutputBibtex ==
    /\ pc = "output_bibtex"
    /\ IF databases[current].fault \in {"format", "open_bibtex_w"}
       THEN pc' = "traceback" /\ UNCHANGED output_files
       ELSE /\ output_files' =
                   [output_files EXCEPT ![current].bibtex = "written"]
            /\ pc' = "output_html.format"
    /\ UNCHANGED <<script, databases, attempted, sortVars, classifyVars,
                   nameVars, replaceVars, bibtexVars, renderVars, spliceVars,
                   databaseVars>>

\* output_html: the format functions and filter_undergraduate_theses.
OutputHtmlFormat ==
    /\ pc = "output_html.format"
    /\ pc' = IF databases[current].fault = "format"
             THEN "traceback"
             ELSE "output_html.read"
    /\ UNCHANGED <<script, databases, attempted, output_files, sortVars,
                   classifyVars, nameVars, replaceVars, bibtexVars,
                   renderVars, spliceVars,
                   databaseVars>>

\* output_html: open(filename, "r"), the scan of the file and the sorts.
OutputHtmlRead ==
    /\ pc = "output_html.read"
    /\ pc' = IF databases[current].fault = "open_html_r"
             THEN "traceback"
             ELSE "output_html.write"
    /\ UNCHANGED <<script, databases, attempted, output_files, sortVars,
                   classifyVars, nameVars, replaceVars, bibtexVars,
                   renderVars, spliceVars,
                   databaseVars>>

\* output_html: open(filename, "w") and write; then the next statement of
\* the driver.
OutputHtmlWrite ==
    /\ pc = "output_html.write"
    /\ IF databases[current].fault = "open_html_w"
       THEN pc' = "traceback" /\ UNCHANGED output_files
       ELSE /\ output_files' =
                   [output_files EXCEPT ![current].html = "written"]
            /\ pc' = IF current < Len(databases) THEN "process_database"
                     ELSE "exit"
    /\ UNCHANGED <<script, databases, attempted, sortVars, classifyVars,
                   nameVars, replaceVars, bibtexVars, renderVars, spliceVars,
                   databaseVars>>

NextDriver ==
    \/ ProcessDatabase
    \/ OutputBibtex
    \/ OutputHtmlFormat
    \/ OutputHtmlRead
    \/ OutputHtmlWrite

SpecDriver == InitDriver /\ [][NextDriver]_vars

(***************************************************************************)
(* C18, C19: the drivers.                                                  *)
(***************************************************************************)

Ended == pc \in {"exit", "traceback"}

\* C18: a failure while processing one database does not prevent the later
\* databases from being attempted: when the driver has ended, each of its
\* databases has been passed to process_database.
C18_LaterDatabasesAttempted ==
    Ended => attempted = [i \in DOMAIN databases |-> databases[i].name]

\* C19: processing one database is atomic with respect to its output files:
\* if a step fails, neither the BibTeX file nor the HTML file of that
\* database has been written.
C19_NoOutputOnFailure ==
    pc = "traceback" =>
        \A file \in DOMAIN output_files[current] :
            output_files[current][file] = "untouched"

(***************************************************************************)
(* output_html: the splice of the formatted lists into the HTML file.      *)
(* The file is the sequence of its lines, each with its "\n" (the last     *)
(* line may have none); htmlcontent is the sequence of the pieces that the *)
(* code appends to it, so that its concatenation is the text written.      *)
(***************************************************************************)

replace_maths(s) ==
    replace_all(s,
    << <<"$0$", "0">>,
       <<"$_3F_2(1/4)$", "<i>_3F_2(1/4)</i>">>,
       <<"$q=0$", "<i>q=0</i>">>,
       <<"$e$", "<i>e</i>">>,
       <<"$k$", "<i>k</i>">>,
       <<"$L$", "<i>L</i>">>,
       <<"$\\mathbbF_q[t]$", "<i>F_q[t]</i>">>,
       <<"$p$", "<i>p</i>">>,
       <<"$PSL_2(\\mathbb Z)$", "<i>PSL_2(Z)</i>">>,
       <<"$S_n$", "<i>S_n</i>">>,
       <<"$Z_N$", "<i>Z_N</i>">> >>)

\* htmlfile.readline(): the next line, "" at the end of the file.
readline(file, pos) == IF pos < Len(file) THEN file[pos + 1] ELSE ""

\* The state of the scan is the number of lines read (pos), the line in
\* hand, the content gathered, and whether a loop can no longer end (hang).
\* while not re_token.search(line): [htmlcontent += line;]
\*     line = htmlfile.readline()
\* At the end of the file readline() returns "" for ever and the loop does
\* not end.
\* A search that gives up at the end of the file.
RECURSIVE search_loop_stops_at_eof(_, _, _, _)
search_loop_stops_at_eof(file, scan, token, keep) ==
    IF str_contains(scan.line, token) \/ scan.line = "" THEN scan
    ELSE search_loop_stops_at_eof(file,
             [pos |-> scan.pos + 1,
              line |-> readline(file, scan.pos),
              content |-> IF keep THEN Append(scan.content, scan.line)
                          ELSE scan.content,
              hang |-> FALSE],
             token, keep)

RECURSIVE search_loop(_, _, _, _)
search_loop(file, scan, token, keep) ==
    IF scan.hang \/ str_contains(scan.line, token) THEN scan
    ELSE IF scan.line = "" THEN [scan EXCEPT !.hang = TRUE]
    ELSE search_loop(file,
             [pos |-> scan.pos + 1,
              line |-> readline(file, scan.pos),
              content |-> IF keep THEN Append(scan.content, scan.line)
                          ELSE scan.content,
              hang |-> FALSE],
             token, keep)

RECURSIVE list_items(_)
list_items(items) ==
    IF items = <<>> THEN <<>>
    ELSE <<"    " \o "<li>" \o Head(items) \o "</li>\n">>
         \o list_items(Tail(items))

\* One section of output_html: everything up to the start stub, the stub
\* and "\n", the new list in place of what the file has up to the end stub.
splice_section(file, scan, section, items) ==
    LET at_start == search_loop(file, scan, "START_TOKEN_" \o section, TRUE)
        with_stub == [at_start EXCEPT
                         !.content = @ \o <<at_start.line, "\n">>]
        at_end == search_loop(file, with_stub, "END_TOKEN_" \o section, FALSE)
    IN  [at_end EXCEPT
            !.content = @ \o <<"  <ol>\n">> \o list_items(items)
                          \o <<"  </ol>\n", "\n">>]

\* while True: htmlcontent += line; line = htmlfile.next()
rest_of_file(file, scan) ==
    Append(scan.content, scan.line) \o SubSeq(file, scan.pos + 1, Len(file))

sections == <<"ARTICLES", "THESES", "BOOKS", "PREPRINTS">>

\* The scan of output_html over the four sections, in the order of the
\* code.
scanned(file, formatted) ==
    LET start == [pos |-> 1, line |-> readline(file, 0),
                  content |-> <<>>, hang |-> FALSE]
        articles == splice_section(file, start, sections[1], formatted[1])
        theses == splice_section(file, articles, sections[2], formatted[2])
        books == splice_section(file, theses, sections[3], formatted[3])
    IN  splice_section(file, books, sections[4], formatted[4])

\* What output_html writes: replace_maths(htmlcontent) in pubparse.py,
\* htmlcontent in publications_parser.py.  No pattern of replace_maths has
\* a "\n", so the pass acts within the pieces.
written(scr, file, scan) ==
    LET content == rest_of_file(file, scan)
    IN  IF scr = "pubparse"
        THEN [i \in 1..Len(content) |-> replace_maths(content[i])]
        ELSE content

(***************************************************************************)
(* Inputs of the splice: HTML files with each pair of stubs once.          *)
(***************************************************************************)
\* The lines of one section of the file: the stubs on lines of their own
\* around the old list, or both stubs on one line.
section_lines(section, old, shape) ==
    LET start_stub == "<!-- START_TOKEN_" \o section \o " -->"
        end_stub == "<!-- END_TOKEN_" \o section \o " -->"
    IN  CASE shape = "one line" -> <<start_stub \o end_stub \o "\n">>
          [] shape = "one line, end first" ->
                 <<end_stub \o start_stub \o "\n">>
          [] shape = "end first" ->
                 <<end_stub \o "\n">> \o old \o <<start_stub \o "\n">>
          [] shape = "no start" -> old \o <<end_stub \o "\n">>
          [] shape = "no end" -> <<start_stub \o "\n">> \o old
          [] OTHER -> <<start_stub \o "\n">> \o old \o <<end_stub \o "\n">>

\* The files: text around the sections (with a formula, or with one inside
\* "$$"), an old list or none, the sections in the order of the code or
\* with two of them exchanged, the stubs of the first or of the last
\* section on lines of their own, on one line, exchanged or one of them
\* missing, a last line without "\n" or none.
HtmlFiles ==
    LET fillers == {<<>>, <<"<h2>a</h2>\n">>, <<"<p>for $p$ prime</p>\n">>,
                    <<"<p>$$0$$</p>\n">>}
        own_lines == "own lines"
    IN  {before
         \o section_lines(order[1], old, shapes[1]) \o between
         \o section_lines(order[2], old, own_lines) \o between
         \o section_lines(order[3], old, own_lines) \o between
         \o section_lines(order[4], old, shapes[2]) \o last :
            before \in fillers, between \in fillers,
            old \in {<<>>, <<"  <ol>\n", "    <li>old</li>\n", "  </ol>\n">>},
            shapes \in {<<shape, own_lines>> :
                           shape \in {own_lines, "one line",
                                      "one line, end first", "end first",
                                      "no start", "no end"}}
                       \cup {<<own_lines, "no end">>,
                             <<own_lines, "end first">>},
            order \in {<<"ARTICLES", "THESES", "BOOKS", "PREPRINTS">>,
                       <<"ARTICLES", "BOOKS", "THESES", "PREPRINTS">>},
            last \in {<<>>, <<"</html>">>}}

FormattedLists ==
    {<< <<>>, <<>>, <<>>, <<>> >>,
     << <<"A1">>, <<"T1">>, <<"B1">>, <<"P1", "P2">> >>}

InitSplice ==
    /\ pc = "output_html"
    /\ script \in Scripts
    /\ htmlfile \in HtmlFiles
    /\ lists \in FormattedLists
    /\ htmlcontent = <<>>
    /\ SortIdle /\ ClassifyIdle /\ NameIdle /\ ReplaceIdle /\ BibtexIdle
    /\ RenderIdle /\ DriverIdle /\ DatabaseIdle

\* output_html from open(filename, "r") to the write; when a loop of the
\* scan does not end, nothing is written.
OutputHtml ==
    /\ pc = "output_html"
    /\ LET scan == scanned(htmlfile, lists)
       IN  IF scan.hang
           THEN pc' = "output_html.hang" /\ UNCHANGED htmlcontent
           ELSE /\ htmlcontent' = written(script, htmlfile, scan)
                /\ pc' = "output_html.return"
    /\ UNCHANGED <<script, htmlfile, lists, sortVars, classifyVars, nameVars,
                   replaceVars, bibtexVars, renderVars, driverVars,
                   databaseVars>>

\* The lines that a later open(filename, "r") reads from the text that
\* outfile.write wrote: the pieces of the text, cut after each "\n".
RECURSIVE file_lines(_)
file_lines(content) ==
    IF content = <<>> THEN <<>>
    ELSE IF Head(content) = "" THEN file_lines(Tail(content))
    ELSE IF Len(content) = 1
            \/ MatchAt(Head(content), Len(Head(content)), "\n")
    THEN <<Head(content)>> \o file_lines(Tail(content))
    ELSE file_lines(<<Head(content) \o content[2]>> \o Tail(Tail(content)))

\* output_html once more, with the same lists, on the file that the run
\* before has written.
OutputHtmlAgain ==
    /\ pc = "output_html.return"
    /\ \E file \in {file_lines(htmlcontent)} :
           /\ htmlfile' = file
           /\ LET scan == scanned(file, lists)
              IN  IF scan.hang
                  THEN pc' = "output_html.again.hang" /\ UNCHANGED htmlcontent
                  ELSE /\ htmlcontent' = written(script, file, scan)
                       /\ pc' = "output_html.again.return"
    /\ UNCHANGED <<script, lists, sortVars, classifyVars, nameVars,
                   replaceVars, bibtexVars, renderVars, driverVars,
                   databaseVars>>

NextSplice == OutputHtml \/ OutputHtmlAgain

SpecSplice == InitSplice /\ [][NextSplice]_vars

(***************************************************************************)
(* C20: the frame of the splice.                                           *)
(***************************************************************************)

\* Line i of the text is between a start stub and its end stub.
Between(text, i) ==
    \E n \in 1..Len(sections) : \E s, e \in 1..Len(text) :
        /\ s < i /\ i < e
        /\ str_contains(text[s], "START_TOKEN_" \o sections[n])
        /\ str_contains(text[e], "END_TOKEN_" \o sections[n])

\* The text outside the pairs of stubs, the stub lines included.
RECURSIVE OutsideFrom(_, _)
OutsideFrom(text, i) ==
    IF i > Len(text) THEN ""
    ELSE (IF Between(text, i) THEN "" ELSE text[i]) \o OutsideFrom(text, i + 1)

Outside(text) == OutsideFrom(text, 1)

\* C20: the file that output_html writes is identical to the file it read
\* in every byte outside the pairs of stubs.
C20_OutsideStubsPreserved ==
    pc = "output_html.return" => Outside(htmlcontent) = Outside(htmlfile)

(***************************************************************************)
(* C27: when output_html writes.                                           *)
(***************************************************************************)

\* The eight tokens in the order in which output_html looks for them.
marker_tokens ==
    <<"START_TOKEN_ARTICLES", "END_TOKEN_ARTICLES",
      "START_TOKEN_THESES", "END_TOKEN_THESES",
      "START_TOKEN_BOOKS", "END_TOKEN_BOOKS",
      "START_TOKEN_PREPRINTS", "END_TOKEN_PREPRINTS">>

\* The tokens are in the text in this order: each one begins after the
\* place (line l, column c) where the one before it begins.
RECURSIVE InTextOrderFrom(_, _, _, _)
InTextOrderFrom(file, l, c, tokens) ==
    \/ tokens = <<>>
    \/ \E m \in l..Len(file) : \E d \in 1..Len(file[m]) :
           /\ m > l \/ d >= c
           /\ MatchAt(file[m], d, Head(tokens))
           /\ InTextOrderFrom(file, m, d + 1, Tail(tokens))

InTextOrder(file) == InTextOrderFrom(file, 1, 1, marker_tokens)

\* The tokens are on lines in this order: each one is on the line of the one
\* before it or on a later line.
RECURSIVE InLineOrderFrom(_, _, _)
InLineOrderFrom(file, l, tokens) ==
    \/ tokens = <<>>
    \/ \E m \in l..Len(file) :
           /\ str_contains(file[m], Head(tokens))
           /\ InLineOrderFrom(file, m, Tail(tokens))

InLineOrder(file) == InLineOrderFrom(file, 1, marker_tokens)

\* C27 as stated: output_html writes the file only after it has found the
\* eight tokens in the order ARTICLES, THESES, BOOKS, PREPRINTS, each start
\* before its end, and it ends on every such file; on a file where a token is
\* missing or out of order the scan does not end and nothing is written.
C27_WritesIffInOrderAsStated ==
    /\ pc = "output_html.return" => InTextOrder(htmlfile)
    /\ pc = "output_html.hang" =>
           ~InTextOrder(htmlfile) /\ htmlcontent = <<>>

\* C27, amended: output_html writes the file only after it has found the
\* eight tokens on lines in the order ARTICLES, THESES, BOOKS, PREPRINTS,
\* start and end, each token on the line of the token before it or on a
\* later line, and it ends on every such file; on every other file the scan
\* does not end and nothing is written.
C27_WritesIffInLineOrder ==
    /\ pc = "output_html.return" => InLineOrder(htmlfile)
    /\ pc = "output_html.hang" =>
           ~InLineOrder(htmlfile) /\ htmlcontent = <<>>

\* A file without the END_TOKEN_PREPRINTS stub: the scan does not end.
C27_Witness ==
    /\ pc = "output_html.hang"
    /\ \A i \in 1..7 : \E m \in DOMAIN htmlfile :
           str_contains(htmlfile[m], marker_tokens[i])
    /\ \A m \in DOMAIN htmlfile :
           ~str_contains(htmlfile[m], marker_tokens[8])
    /\ htmlcontent = <<>>

(***************************************************************************)
(* C28: output_html run again on the file it has written.                  *)
(***************************************************************************)

\* No line of the file has two of the tokens.
OwnLines(file) ==
    \A m \in DOMAIN file :
        Cardinality({i \in DOMAIN marker_tokens :
                        str_contains(file[m], marker_tokens[i])}) <= 1

\* C28: for the same lists and a file whose stubs are each on a line of
\* their own, output_html run on the file it has just written writes the
\* same text again, byte for byte.
C28_SpliceIdempotent ==
    pc \in {"output_html.again.return", "output_html.again.hang"}
    /\ OwnLines(htmlfile)
        => /\ pc = "output_html.again.return"
           /\ str_join(htmlcontent) = str_join(htmlfile)

(***************************************************************************)
(* C21: records without a year attribute.                                  *)
(***************************************************************************)

\* C21: a record that has no year attribute but has a date attribute is
\* sorted by the year of its date: sort_publications fails with a
\* missing-year error only when a record has neither year nor date.
C21_FailsOnlyWithoutYearAndDate ==
    pc = "sort_publications.raise" =>
        \E i \in DOMAIN publications :
            /\ "year" \notin DOMAIN publications[i]
            /\ "date" \notin DOMAIN publications[i]

(***************************************************************************)
(* process_database and extract_publication, and the lists that            *)
(* output_html builds from the publications.  For pubparse.py the database *)
(* is the sequence of the parsed entries in the order of                   *)
(* bibdb.entries.keys(): an entry has its type, its fields and its         *)
(* persons, a person being the text that plain(person).format()            *)
(* .plaintext() gives for it.  For publications_parser.py the database is  *)
(* the sequence of the lines of the flat file.                             *)
(***************************************************************************)

\* The key of the list of a kind in the dictionary of process_database.
list_of(type) ==
    CASE type = "article" -> "articles"
      [] type = "book" -> "books"
      [] type = "incollection" -> "incollections"
      [] type = "inproceedings" -> "inproceedings"
      [] type = "mastersthesis" -> "masterstheses"
      [] type = "misc" -> "miscs"
      [] type = "phdthesis" -> "phdtheses"
      [] type = "techreport" -> "techreports"
      [] type = "unpublished" -> "unpublisheds"

\* An authors_str that keeps the first name only.
persons_str_first_only(persons_list) ==
    str_replace(persons_list[1], "<nbsp>", " ")

\* authors_str of extract_publication: the first name, then " and " and
\* each further name, then "<nbsp>" replaced by " ".
RECURSIVE persons_str(_)
persons_str(persons_list) ==
    IF Len(persons_list) = 1 THEN str_replace(persons_list[1], "<nbsp>", " ")
    ELSE str_replace(
             persons_str(SubSeq(persons_list, 1, Len(persons_list) - 1))
             \o " and " \o persons_list[Len(persons_list)],
             "<nbsp>", " ")

\* An extract_publication that leaves the author out when the entry has no
\* author persons.
extract_publication_skips_author(entry_dict) ==
    LET fields == entry_dict.fields
        persons == entry_dict.persons
        attributes == DOMAIN fields \cup DOMAIN persons
    IN  [raised |-> "", arg |-> "",
         value |-> [a \in attributes |->
                       IF a \in DOMAIN fields THEN str_strip(fields[a])
                       ELSE persons_str(persons[a])]]

\* extract_publication: the fields, stripped; the author persons, whose
\* lookup raises KeyError when the entry has none; the editor persons if
\* any.  setdefault keeps a value that the fields have set.
extract_publication(entry_dict) ==
    LET fields == entry_dict.fields
        persons == entry_dict.persons
        attributes ==
            DOMAIN fields \cup {"author"} \cup (DOMAIN persons \cap {"editor"})
    IN  IF "author" \notin DOMAIN persons
        THEN [raised |-> "KeyError", arg |-> "author", value |-> <<>>]
        ELSE IF \E a \in DOMAIN persons \cap {"author", "editor"} :
                    persons[a] = <<>>
        THEN [raised |-> "IndexError", arg |-> "list index out of range",
              value |-> <<>>]
        ELSE [raised |-> "", arg |-> "",
              value |-> [a \in attributes |->
                            IF a \in DOMAIN fields THEN str_strip(fields[a])
                            ELSE persons_str(persons[a])]]

\* The loop of process_database in pubparse.py over the entries.
RECURSIVE pubparse_process_database(_, _)
pubparse_process_database(entries, lists_by_kind) ==
    IF entries = <<>>
    THEN [raised |-> "", arg |-> "", value |-> lists_by_kind]
    ELSE LET e == Head(entries)
             publication == extract_publication(e)
         IN  IF e.type \notin RenderKinds("pubparse")
             THEN [raised |-> "ValueError",
                   arg |-> "Unsupported publication type " \o e.type,
                   value |-> <<>>]
             ELSE IF publication.raised # "" THEN publication
             ELSE pubparse_process_database(
                      Tail(entries),
                      [lists_by_kind EXCEPT
                          ![list_of(e.type)] = Append(@, publication.value)])

\* The loop of process_database in publications_parser.py over the lines:
\* a line that names a kind is followed by one line per attribute of the
\* kind; any other line is passed over; StopIteration ends the loop, also
\* in the middle of an entry, which is then not appended.
RECURSIVE parser_process_database(_, _)
parser_process_database(lines, lists_by_kind) ==
    IF lines = <<>> THEN lists_by_kind
    ELSE LET line == str_strip(Head(lines))
         IN  IF line \in RenderKinds("publications_parser")
             THEN LET attributes == parser_attributes(line)
                  IN  IF Len(lines) - 1 < Len(attributes) THEN lists_by_kind
                      ELSE parser_process_database(
                               SubSeq(lines, Len(attributes) + 2, Len(lines)),
                               [lists_by_kind EXCEPT
                                   ![list_of(line)] =
                                       Append(@,
                                           [a \in Range(attributes) |->
                                               str_strip(lines[
                                                   1 + list_index(attributes,
                                                                  a) + 1])])])
             ELSE parser_process_database(Tail(lines), lists_by_kind)

process_database(scr, database) ==
    LET empty == [l \in {list_of(k) : k \in RenderKinds(scr)} |-> <<>>]
    IN  IF scr = "pubparse" THEN pubparse_process_database(database, empty)
        ELSE [raised |-> "", arg |-> "",
              value |-> parser_process_database(database, empty)]

\* An output_html that puts the technical reports first in papers but last
\* in the records that it sorts.
output_html_lists_misaligned(publications_db) ==
    LET misc == filter_undergraduate_theses("pubparse",
                                            publications_db["miscs"])
        format(k, list) ==
            [i \in 1..Len(list) |-> pubparse_format_html(k, list[i])]
    IN  << [papers |->
          format("techreport", publications_db["techreports"])
          \o format("article", publications_db["articles"])
          \o format("incollection", publications_db["incollections"])
          \o format("inproceedings", publications_db["inproceedings"]),
            records |->
          publications_db["articles"]
          \o publications_db["incollections"]
          \o publications_db["inproceedings"]
          \o publications_db["techreports"]],
           [papers |->
          format("mastersthesis", publications_db["masterstheses"])
          \o format("phdthesis", publications_db["phdtheses"])
          \o format("misc", misc.undergraduatetheses),
            records |->
          publications_db["masterstheses"]
          \o publications_db["phdtheses"]
          \o misc.undergraduatetheses],
           [papers |->
          format("book", publications_db["books"])
          \o format("unpublished", publications_db["unpublisheds"]),
            records |->
          publications_db["books"] \o publications_db["unpublisheds"]],
           [papers |-> format("misc", misc.preprints),
            records |-> misc.preprints] >>

\* output_html in pubparse.py, per section: papers, the list of the
\* outcomes of the format functions, and the list of records that is
\* passed to sort_publications, both concatenated kind by kind.
output_html_lists(publications_db) ==
    LET misc == filter_undergraduate_theses("pubparse",
                                            publications_db["miscs"])
        format(k, list) ==
            [i \in 1..Len(list) |-> pubparse_format_html(k, list[i])]
    IN  << [papers |->
          format("article", publications_db["articles"])
          \o format("incollection", publications_db["incollections"])
          \o format("inproceedings", publications_db["inproceedings"])
          \o format("techreport", publications_db["techreports"]),
            records |->
          publications_db["articles"]
          \o publications_db["incollections"]
          \o publications_db["inproceedings"]
          \o publications_db["techreports"]],
           [papers |->
          format("mastersthesis", publications_db["masterstheses"])
          \o format("phdthesis", publications_db["phdtheses"])
          \o format("misc", misc.undergraduatetheses),
            records |->
          publications_db["masterstheses"]
          \o publications_db["phdtheses"]
          \o misc.undergraduatetheses],
           [papers |->
          format("book", publications_db["books"])
          \o format("unpublished", publications_db["unpublisheds"]),
            records |->
          publications_db["books"] \o publications_db["unpublisheds"]],
           [papers |-> format("misc", misc.preprints),
            records |-> misc.preprints] >>

\* One section: sorted_index = sort_publications(records), and the list
\* has papers[index] for each index of sorted_index.
list_section(papers, records) ==
    CHOOSE section \in
        {[records |-> records, papers |-> papers,
          sorted_index |-> sorted_index,
          items |-> [k \in 1..Len(sorted_index) |->
                        papers[sorted_index[k] + 1]]] :
            sorted_index \in {sort_publications(records)}} : TRUE

(***************************************************************************)
(* Inputs: databases of at most MaxEntries entries.                        *)
(***************************************************************************)
MaxEntries == 2

\* The entries of a BibTeX database: of every kind of pubparse.py, with
\* two authors; some with one author; an article without author; an entry
\* of a kind that the script does not know; an article whose first
\* author's name ends in "and"; a paper with editors; a misc that is an
\* undergraduate thesis.
BibEntries ==
    LET one == [author |-> <<"Al Ed">>]
        two == [author |-> <<"Bo<nbsp>Li", "Al Ed">>]
        fields(t, with_note) ==
            [a \in (IF t = "patent" THEN {"title", "year"}
                    ELSE pubparse_mandatory(t) \ {"author"})
                   \cup (IF with_note THEN {"note"} ELSE {}) |->
                IF a = "note" THEN "http://x.org/t Bachelor thesis"
                ELSE IF a = "title" THEN AttributeValue(a) \o " "
                ELSE AttributeValue(a)]
    IN  {[type |-> t, fields |-> fields(t, FALSE), persons |-> two] :
            t \in RenderKinds("pubparse")}
        \cup {[type |-> t, fields |-> fields(t, FALSE), persons |-> one] :
                 t \in {"article", "book", "misc", "patent"}}
        \cup {[type |-> "misc", fields |-> fields("misc", TRUE),
               persons |-> p] : p \in {one, two}}
        \cup {[type |-> "article", fields |-> fields("article", FALSE),
               persons |-> [a \in {} |-> <<>>]],
              [type |-> "article", fields |-> fields("article", FALSE),
               persons |-> [author |-> <<"Bo and", "Al Ed">>]],
              [type |-> "incollection",
               fields |-> fields("incollection", FALSE),
               persons |-> [author |-> <<"Al Ed">>,
                            editor |-> <<"Ed Or", "Cy<nbsp>Di">>]]}

\* The entries of the flat database: the line of the kind and one line per
\* attribute; a technical report and a patent, which the script does not
\* know.
FlatEntries ==
    {<<k \o "\n">>
     \o [i \in 1..Len(parser_attributes(k)) |->
            AttributeValue(parser_attributes(k)[i]) \o "\n"] :
        k \in RenderKinds("publications_parser")}
    \cup {<<k \o "\n", "Al Ed\n", "On {X}\n", "2007\n">> :
             k \in {"techreport", "patent"}}

InitDatabase ==
    /\ pc = "process_database"
    /\ script \in Scripts
    /\ \E entries \in SeqsUpTo(IF script = "pubparse" THEN BibEntries
                               ELSE FlatEntries, MaxEntries) :
          bibdb = IF script = "pubparse" THEN entries
                  ELSE LET RECURSIVE lines_of(_)
                           lines_of(es) ==
                               IF es = <<>> THEN <<>>
                               ELSE Head(es) \o lines_of(Tail(es))
                       IN  lines_of(entries)
    /\ db = NoOutcome
    /\ listed = <<>>
    /\ SortIdle /\ ClassifyIdle /\ NameIdle /\ ReplaceIdle /\ BibtexIdle
    /\ RenderIdle /\ DriverIdle /\ SpliceIdle

\* db = process_database(<database>)
ProcessDatabaseEntries ==
    /\ pc = "process_database"
    /\ db' = process_database(script, bibdb)
    /\ pc' = IF db'.raised = "" THEN "process_database.return"
             ELSE "process_database.raise"
    /\ UNCHANGED <<script, bibdb, listed, sortVars, classifyVars, nameVars,
                   replaceVars, bibtexVars, renderVars, driverVars,
                   spliceVars>>

\* output_html of pubparse.py up to the lists of the four sections; a
\* format function that raises ends it.
OutputHtmlLists ==
    /\ pc = "process_database.return"
    /\ script = "pubparse"
    /\ \E sections_listed \in {output_html_lists(db.value)} :
          IF \E n \in 1..4 : \E i \in DOMAIN sections_listed[n].papers :
                sections_listed[n].papers[i].raised # ""
          THEN pc' = "output_html.raise" /\ UNCHANGED listed
          ELSE /\ listed' =
                      [n \in 1..4 |->
                          list_section(
                              [i \in DOMAIN sections_listed[n].papers |->
                                  sections_listed[n].papers[i].value],
                              sections_listed[n].records)]
               /\ pc' = "output_html.listed"
    /\ UNCHANGED <<script, bibdb, db, sortVars, classifyVars, nameVars,
                   replaceVars, bibtexVars, renderVars, driverVars,
                   spliceVars>>

NextDatabase ==
    \/ ProcessDatabaseEntries
    \/ OutputHtmlLists

SpecDatabase == InitDatabase /\ [][NextDatabase]_vars

(***************************************************************************)
(* C22, C23, C24, C29: the database and the lists.                         *)
(***************************************************************************)

Processed == pc # "process_database"

\* C22: process_database fails, and returns no publication set, whenever
\* the database has an entry whose kind is not one of article, book,
\* incollection, inproceedings, mastersthesis, misc, phdthesis, techreport,
\* unpublished.
C22_UnsupportedKindFails ==
    LET unsupported ==
            IF script = "pubparse"
            THEN \E i \in DOMAIN bibdb :
                     bibdb[i].type \notin RenderKinds("pubparse")
            ELSE \E i \in DOMAIN bibdb :
                     str_strip(bibdb[i]) \in {"patent"}
    IN  Processed /\ unsupported => db.raised # ""

\* C23: extract_publication fails, and the error reaches the caller of
\* process_database, when an entry has no author persons: no publication
\* set is returned, and a publication set never has a record without an
\* author attribute.
C23_NoAuthorFails ==
    Processed /\ script = "pubparse" =>
        /\ (\E i \in DOMAIN bibdb : "author" \notin DOMAIN bibdb[i].persons)
               => db.raised # ""
        /\ db.raised = "" =>
               \A l \in DOMAIN db.value : \A j \in DOMAIN db.value[l] :
                   "author" \in DOMAIN db.value[l][j]

C23_Witness ==
    /\ pc = "process_database.raise" /\ script = "pubparse"
    /\ db.raised = "KeyError" /\ db.arg = "author"
    /\ Len(bibdb) = 2
    /\ "author" \in DOMAIN bibdb[1].persons
    /\ "author" \notin DOMAIN bibdb[2].persons

\* The record that process_database made of entry i.
RecordOf(i) ==
    LET t == bibdb[i].type
    IN  db.value[list_of(t)][Cardinality({h \in 1..i : bibdb[h].type = t})]

\* The names of a person list as plain text.
PlainNames(persons_list) ==
    [k \in DOMAIN persons_list |->
        str_replace(persons_list[k], "<nbsp>", " ")]

\* Splitting the author string and the editor string of every record on
\* " and " gives the names of the entry, in order, when every name
\* satisfies Admissible.
SplitsBackWhen(Admissible(_)) ==
    Processed /\ script = "pubparse" /\ db.raised = "" =>
        \A i \in DOMAIN bibdb :
            \A a \in DOMAIN bibdb[i].persons \cap {"author", "editor"} :
                LET plain_names == PlainNames(bibdb[i].persons[a])
                IN  (\A k \in DOMAIN plain_names :
                         Admissible(plain_names[k]))
                        => str_split(RecordOf(i)[a], " and ") = plain_names

\* C24 as stated: for a list of k >= 1 authors, or editors, whose names do
\* not contain " and ", splitting the record's string on " and " yields
\* exactly those k names in the same order.
C24_SplitsBackAsStated ==
    SplitsBackWhen(LAMBDA name : ~str_contains(name, " and "))

\* C24: for a list of k >= 1 authors, or editors, whose names neither
\* contain " and " nor end with " and", splitting the record's string on
\* " and " yields exactly those k names in the same order.
C24_SplitsBack ==
    SplitsBackWhen(LAMBDA name :
        /\ ~str_contains(name, " and ")
        /\ ~(Len(name) >= 4 /\ MatchAt(name, Len(name) - 3, " and")))

C24_Witness ==
    /\ pc = "process_database.return" /\ script = "pubparse"
    /\ \E i \in DOMAIN bibdb :
          /\ bibdb[i].persons =
                 [author |-> <<"Al Ed">>, editor |-> <<"Ed Or", "Cy<nbsp>Di">>]
          /\ RecordOf(i)["editor"] = "Ed Or and Cy Di"
    /\ \E i \in DOMAIN bibdb :
          /\ bibdb[i].persons = [author |-> <<"Bo<nbsp>Li", "Al Ed">>]
          /\ RecordOf(i)["author"] = "Bo Li and Al Ed"

\* C29: in every section the list of renderings and the list of records
\* given to sort_publications are concatenated from the same kinds in the
\* same order: the k-th list item is the rendering of the record at
\* position sorted_index[k]; across the four sections there are as many
\* list items as records in the publication set, and every record is in
\* exactly one section.
C29_ListsAligned ==
    pc = "output_html.listed" =>
        LET Times(r, list) == Cardinality({j \in DOMAIN list : list[j] = r})
            all_records ==
                UNION {Range(db.value[l]) : l \in DOMAIN db.value}
        IN  /\ \A n \in 1..4 :
                  /\ Len(listed[n].items) = Len(listed[n].records)
                  /\ \A k \in DOMAIN listed[n].items :
                        LET r == listed[n].records[
                                     listed[n].sorted_index[k] + 1]
                        IN  listed[n].items[k] \in
                                {pubparse_format_html(t, r).value :
                                    t \in {u \in RenderKinds("pubparse") :
                                              r \in Range(
                                                  db.value[list_of(u)])}}
            /\ Len(listed[1].items) + Len(listed[2].items)
                   + Len(listed[3].items) + Len(listed[4].items)
               = Len(bibdb)
            /\ \A r \in all_records :
                   Times(r, listed[1].records) + Times(r, listed[2].records)
                       + Times(r, listed[3].records)
                       + Times(r, listed[4].records)
                   = Cardinality({<<l, j>> \in
                         UNION {{l2} \X DOMAIN db.value[l2] :
                                    l2 \in DOMAIN db.value} :
                             db.value[l][j] = r})

C29_Witness ==
    /\ pc = "output_html.listed"
    /\ Len(bibdb) = 2
    /\ bibdb[1].type = "article" /\ bibdb[2].type = "incollection"
    /\ listed[1].sorted_index = <<1, 0>>
    /\ listed[1].items =
           <<"Al Ed. On X. In Ed Or and Cy Di (ed.). Proc Y. 2007.",
             "Bo Li and Al Ed. On X. J Alg, 2007.">>

(***************************************************************************)
(* C25, C26: the note lines of a BibTeX stanza.                            *)
(***************************************************************************)

\* The number of places of s where sub occurs.
Occurrences(s, sub) == Cardinality({i \in 1..Len(s) : MatchAt(s, i, sub)})

C26_NoFieldTwice ==
    pc = "format_bibtex.return" =>
        \A field \in {"author", "title", "journal", "volume", "number",
                      "pages", "year", "note", "edition", "publisher",
                      "editor", "booktitle", "series", "school", "address",
                      "howpublished", "month"} :
            Occurrences(rendered.value, "  " \o field \o " = {") <= 1

(***************************************************************************)
(* C30: the note of an undergraduate thesis.                               *)
(***************************************************************************)

EndsWith(s, suffix) ==
    Len(suffix) <= Len(s) /\ MatchAt(s, Len(s) - Len(suffix) + 1, suffix)

\* The record is a misc record that filter_undergraduate_theses puts with the
\* undergraduate theses, and its note begins with a URL.
ThesisWithUrl ==
    /\ script = "pubparse" /\ kind = "misc"
    /\ "note" \in DOMAIN record
    /\ str_contains(record["note"], "thesis")
    /\ MatchAt(record["note"], 1, "http://")
           \/ MatchAt(record["note"], 1, "https://")

\* C30: for a misc record classified as an undergraduate thesis whose note
\* has a URL, format_miscs shows as the note only the words after the URL
\* (nothing when the note is the URL alone); the URL is in the string only
\* as the target of the hyperlink.
C30_ThesisNoteWithoutUrl ==
    pc = "format_html.return" /\ ThesisWithUrl =>
        LET note == record["note"]
            url == str_split_ws(note)[1]
            words == str_strip(str_slice_from(note, Len(url)))
        IN  /\ EndsWith(rendered.value,
                        ". " \o optional(record, "howpublished", "", ", ")
                        \o words \o ", " \o record["year"] \o ".")
            /\ Occurrences(rendered.value, url)
                   = Occurrences(rendered.value, "<a href=\"" \o url \o "\">")

====
